---------------------------- MODULE Spec2Model ----------------------------
(***************************************************************************)
(* Zoop Finance: the bank-statement import pipeline (CSV parsing,          *)
(* classification, currency conversion), the exchange-rate cache, the      *)
(* upload modal, the persisted ledger and the retroactive rule applier of  *)
(* src/src/app/page.tsx.                                                   *)
(*                                                                         *)
(* Text is a sequence of one-character strings, so that the character      *)
(* level operations of the source (strip, lower-case, substring, prefix)   *)
(* are computed and not assumed.  A number is a fraction [n, d] with       *)
(* d > 0; [n |-> 0, d |-> 0] stands for an absent number (undefined/null). *)
(* An absent optional text field (undefined/null) is the empty text.       *)
(***************************************************************************)
EXTENDS Integers, Sequences, FiniteSets, TLC

VARIABLES
    \* ---- module-level exchange-rate cache and the wall clock
    exchangeRatesCache,   \* page.tsx:87  [set, rates, timestamp]
    now,                  \* Date.now(), in milliseconds
    ratesCall,            \* the getExchangeRates call in flight and the last one completed
    lastFetch,            \* history: the last network fetch that completed successfully
    \* ---- one parseCSVLocally call
    csvFile,              \* the file handed to parseCSVLocally: [name, headers, rows]
    csvTeam,              \* the teamMembers argument
    csvRates,             \* the exchangeRates argument
    parsed,               \* the Transaction[] returned
    parseDone,            \* the call has returned
    \* ---- the files on the user's machine
    parsedFiles,          \* file name, rate table |-> what parseCSVLocally returns for it
    \* ---- one convertToUSD call
    convCall,             \* [done, amount, fromCurrency, rates, result]
    \* ---- the Supabase tables
    dbTx,                 \* transactions: a set of rows, id is the primary key
    dbRules,              \* categorization_rules
    dbCategories,         \* categories
    \* ---- state of the page component (page.tsx:2860-2896)
    mounted,              \* the page is loaded and its mount effect has run
    transactions,
    categorizationRules,  \* in the order of the array
    customCategories,
    hiddenCategories,     \* kept in localStorage
    pendingDeletions,     \* RulesTab: the names of the categories marked for deletion
    showUploadModal,
    \* ---- state of the UploadModal component and of its pending callbacks
    modal,                \* [files, processing, importing, error, analysisResult,
                          \*  selectedMonth, selectedYear]
    inflight,             \* the processFiles call that is awaiting: [active, files, period]
    pendingImport,        \* the timeout confirmImport has set: [set, transactions, period, files]
    faults,               \* store requests that may still fail
    \* ---- history
    lastSave,             \* the last saveTransactions call: its arguments and its result
    lastConfirm,          \* the last upload confirmation: its label, the periods stamped on
                          \* the batch, and the periods and types of the rows it stored
    applyHist             \* the last runs of handleApplyRulesToExisting

ratesVars == <<exchangeRatesCache, now, ratesCall, lastFetch>>
parseVars == <<csvFile, csvTeam, csvRates, parsed, parseDone, parsedFiles>>
convVars == <<convCall>>
storeVars == <<dbTx, dbRules, dbCategories>>
pageVars == <<mounted, transactions, categorizationRules, customCategories, hiddenCategories,
              pendingDeletions, showUploadModal>>
modalVars == <<modal, inflight, pendingImport>>
histVars == <<lastSave, lastConfirm, applyHist>>
appVars == <<storeVars, pageVars, modalVars, faults, histVars>>
vars == <<exchangeRatesCache, now, ratesCall, lastFetch,
          csvFile, csvTeam, csvRates, parsed, parseDone, parsedFiles, convCall,
          dbTx, dbRules, dbCategories,
          mounted, transactions, categorizationRules, customCategories, hiddenCategories,
          pendingDeletions, showUploadModal,
          modal, inflight, pendingImport, faults,
          lastSave, lastConfirm, applyHist>>

---------------------------------------------------------------------------
(* Text *)

UpperLetters == <<"A", "B", "C", "D", "E", "F", "G", "H", "I", "J", "K", "L", "M",
                  "N", "O", "P", "Q", "R", "S", "T", "U", "V", "W", "X", "Y", "Z">>
LowerLetters == <<"a", "b", "c", "d", "e", "f", "g", "h", "i", "j", "k", "l", "m",
                  "n", "o", "p", "q", "r", "s", "t", "u", "v", "w", "x", "y", "z">>
Digits == <<"0", "1", "2", "3", "4", "5", "6", "7", "8", "9">>

UpperSet == {UpperLetters[i] : i \in 1..26}
LowerSet == {LowerLetters[i] : i \in 1..26}
DigitSet == {Digits[i] : i \in 1..10}
IsUpper(c) == c \in UpperSet
IsLower(c) == c \in LowerSet
IsDigit(c) == c \in DigitSet
DigitVal(c) == (CHOOSE i \in 1..10 : Digits[i] = c) - 1
\* \w of a JavaScript regular expression
IsWordChar(c) == IsUpper(c) \/ IsLower(c) \/ IsDigit(c) \/ c = "_"
\* \s, and what String.prototype.trim removes
IsSpace(c) == c = " "

LowerOf == [c \in UpperSet |-> LowerLetters[CHOOSE i \in 1..26 : UpperLetters[i] = c]]
UpperOf == [c \in LowerSet |-> UpperLetters[CHOOSE i \in 1..26 : LowerLetters[i] = c]]
LowerChar(c) == IF IsUpper(c) THEN LowerOf[c] ELSE c
UpperChar(c) == IF IsLower(c) THEN UpperOf[c] ELSE c

toLowerCase(s) == [i \in 1..Len(s) |-> LowerChar(s[i])]
toUpperCase(s) == [i \in 1..Len(s) |-> UpperChar(s[i])]

\* s.substring(from) with a 0-based index, as in the source
substringFrom(s, from) == SubSeq(s, from + 1, Len(s))
\* s.substring(0, to)
substringTo(s, to) == SubSeq(s, 1, IF to < Len(s) THEN to ELSE Len(s))

LeadingSpaces(s) ==
    IF \A i \in 1..Len(s) : IsSpace(s[i]) THEN Len(s)
    ELSE (CHOOSE i \in 1..Len(s) : ~IsSpace(s[i]) /\ \A j \in 1..(i - 1) : IsSpace(s[j])) - 1
TrailingSpaces(s) ==
    IF \A i \in 1..Len(s) : IsSpace(s[i]) THEN Len(s)
    ELSE Len(s) - (CHOOSE i \in 1..Len(s) : ~IsSpace(s[i]) /\ \A j \in (i + 1)..Len(s) : IsSpace(s[j]))
trim(s) ==
    IF \A i \in 1..Len(s) : IsSpace(s[i]) THEN <<>>
    ELSE SubSeq(s, LeadingSpaces(s) + 1, Len(s) - TrailingSpaces(s))

\* pattern p occurs in s at the 1-based position i
MatchAt(s, p, i) == i >= 1 /\ i + Len(p) - 1 <= Len(s) /\ \A j \in 1..Len(p) : s[i + j - 1] = p[j]
startsWith(s, p) == MatchAt(s, p, 1)
includes(s, p) == \E i \in 1..(Len(s) + 1) : MatchAt(s, p, i)

\* the characters of s that satisfy Keep, in order: s.replace(/[^...]/g, '')
RECURSIVE KeepChars(_, _)
KeepChars(s, keep) ==
    IF s = <<>> THEN <<>>
    ELSE IF Head(s) \in keep THEN <<Head(s)>> \o KeepChars(Tail(s), keep)
    ELSE KeepChars(Tail(s), keep)

---------------------------------------------------------------------------
(* Numbers *)

Num(n, d) == [n |-> n, d |-> d]
Zero == Num(0, 1)
NoNum == Num(0, 0)
IsNum(x) == x.d > 0
NumEq(a, b) == a.n * b.d = b.n * a.d
NumPos(a) == a.n > 0
NumNeg(a) == a.n < 0
NumIsZero(a) == a.n = 0
NumAbs(a) == Num(IF a.n < 0 THEN -a.n ELSE a.n, a.d)
RECURSIVE Gcd(_, _)
Gcd(a, b) == IF b = 0 THEN a ELSE Gcd(b, a % b)
\* the same number in lowest terms
Lowest(x) ==
    LET g == Gcd(IF x.n < 0 THEN -x.n ELSE x.n, x.d)
    IN  IF g = 0 THEN x ELSE Num(x.n \div g, x.d \div g)
NumAdd(a, b) == Lowest(Num(a.n * b.d + b.n * a.d, a.d * b.d))
NumSub(a, b) == NumAdd(a, Num(-b.n, b.d))
NumMul(a, b) == Lowest(Num(a.n * b.n, a.d * b.d))
\* a / b for b > 0
NumDiv(a, b) == Lowest(Num(a.n * b.d, a.d * b.n))

RECURSIVE Pow10(_)
Pow10(k) == IF k = 0 THEN 1 ELSE 10 * Pow10(k - 1)

RECURSIVE DigitsVal(_)
DigitsVal(s) == IF s = <<>> THEN 0 ELSE 10 * DigitsVal(SubSeq(s, 1, Len(s) - 1)) + DigitVal(s[Len(s)])

\* the number of leading decimal digits of s
DigitPrefixLen(s) ==
    IF \A i \in 1..Len(s) : IsDigit(s[i]) THEN Len(s)
    ELSE (CHOOSE i \in 1..Len(s) : ~IsDigit(s[i]) /\ \A j \in 1..(i - 1) : IsDigit(s[j])) - 1

(***************************************************************************)
(* parseFloat on a text of digits, '.' and '-' (what is left after the     *)
(* source's strip): an optional sign, then the longest prefix that is a    *)
(* decimal literal (digits, digits '.', digits '.' digits, '.' digits);    *)
(* NaN when there is none.                                                 *)
(***************************************************************************)
parseFloat(s) ==
    LET neg == Len(s) > 0 /\ s[1] = "-"
        body == IF neg THEN Tail(s) ELSE s
        ip == DigitPrefixLen(body)
        hasDot == Len(body) > ip /\ body[ip + 1] = "."
        rest == IF hasDot THEN SubSeq(body, ip + 2, Len(body)) ELSE <<>>
        fp == DigitPrefixLen(rest)
        mag == DigitsVal(SubSeq(body, 1, ip)) * Pow10(fp) + DigitsVal(SubSeq(rest, 1, fp))
    IN  IF ip = 0 /\ fp = 0 THEN [nan |-> TRUE, n |-> 0, d |-> 1]
        ELSE [nan |-> FALSE, n |-> IF neg THEN -mag ELSE mag, d |-> Pow10(fp)]

\* x || 0 : NaN and (minus) zero become 0
OrZero(x) == IF x.nan \/ x.n = 0 THEN Zero ELSE Num(x.n, x.d)
\* x || undefined
OrUndefinedNum(x) == IF x.nan \/ x.n = 0 THEN NoNum ELSE Num(x.n, x.d)

AmountChars == {"0", "1", "2", "3", "4", "5", "6", "7", "8", "9", ".", "-"}
\* parseFloat(str.replace(/[^0-9.-]/g, ''))
StrippedFloat(str) == parseFloat(KeepChars(str, AmountChars))

---------------------------------------------------------------------------
(* Currencies and rate tables *)

USD == <<"U", "S", "D">>
EUR == <<"E", "U", "R">>
GBP == <<"G", "B", "P">>
BRL == <<"B", "R", "L">>
CAD == <<"C", "A", "D">>
AUD == <<"A", "U", "D">>
XYZ == <<"X", "Y", "Z">>

\* a value of type Record<string, number> as it arrives at run time: a mapping,
\* or not one (undefined, when the response body carries no rates)
RateTable(m) == [isMap |-> TRUE, map |-> m]
EmptyMap == [c \in {} |-> Zero]
NotAMap == [isMap |-> FALSE, map |-> EmptyMap]

\* the table getExchangeRates returns when the fetch fails
FallbackRates ==
    RateTable([c \in {USD, EUR, GBP, BRL, CAD, AUD} |->
        IF c = USD THEN Num(1, 1)
        ELSE IF c = EUR THEN Num(92, 100)
        ELSE IF c = GBP THEN Num(79, 100)
        ELSE IF c = BRL THEN Num(610, 100)
        ELSE IF c = CAD THEN Num(144, 100)
        ELSE Num(160, 100)])

\* rate tables the rate service may deliver (units of the currency per 1 USD)
ApiRatesA == RateTable([c \in {USD, EUR, GBP} |->
                 IF c = USD THEN Num(1, 1) ELSE IF c = EUR THEN Num(9, 10) ELSE Num(8, 10)])
ApiRatesB == RateTable([c \in {USD, EUR, BRL} |->
                 IF c = USD THEN Num(1, 1) ELSE IF c = EUR THEN Num(1, 2) ELSE Num(5, 1)])

\* a table with an entry that is 0, which the source's !rate takes for no rate
ZeroRates == RateTable([c \in {USD, EUR} |-> IF c = USD THEN Num(1, 1) ELSE Zero])

HasRate(map, c) == c \in DOMAIN map

CACHE_DURATION == 1000 * 60 * 60

(***************************************************************************)
(* convertToUSD(amount, fromCurrency, rates).  The result is                *)
(* [threw, value]: indexing a rates argument that is not a mapping throws. *)
(***************************************************************************)
convertToUSDMutDropUnknown(amount, fromCurrency, rates) ==
    IF fromCurrency = USD \/ fromCurrency = <<>> THEN [threw |-> FALSE, value |-> amount]
    ELSE IF ~rates.isMap THEN [threw |-> TRUE, value |-> NoNum]
    ELSE IF ~HasRate(rates.map, fromCurrency) \/ NumIsZero(rates.map[fromCurrency])
         THEN [threw |-> FALSE, value |-> Zero]
    ELSE [threw |-> FALSE, value |-> NumDiv(amount, rates.map[fromCurrency])]

convertToUSDMutMultiply(amount, fromCurrency, rates) ==
    IF fromCurrency = USD \/ fromCurrency = <<>> THEN [threw |-> FALSE, value |-> amount]
    ELSE IF ~rates.isMap THEN [threw |-> TRUE, value |-> NoNum]
    ELSE IF ~HasRate(rates.map, fromCurrency) \/ NumIsZero(rates.map[fromCurrency])
         THEN [threw |-> FALSE, value |-> amount]
    ELSE [threw |-> FALSE, value |-> NumMul(amount, rates.map[fromCurrency])]

convertToUSD(amount, fromCurrency, rates) ==
    IF fromCurrency = USD \/ fromCurrency = <<>> THEN [threw |-> FALSE, value |-> amount]
    ELSE IF ~rates.isMap THEN [threw |-> TRUE, value |-> NoNum]
    ELSE IF ~HasRate(rates.map, fromCurrency) \/ NumIsZero(rates.map[fromCurrency])
         THEN [threw |-> FALSE, value |-> amount]
    ELSE [threw |-> FALSE, value |-> NumDiv(amount, rates.map[fromCurrency])]

---------------------------------------------------------------------------
(* Categories, the keyword categorizer and the description normalizer *)

Ads == <<"A", "d", "s">>
Fees == <<"F", "e", "e", "s">>
Software == <<"S", "o", "f", "t", "w", "a", "r", "e">>
Payroll == <<"P", "a", "y", "r", "o", "l", "l">>
Shipping == <<"S", "h", "i", "p", "p", "i", "n", "g">>
Transfer == <<"T", "r", "a", "n", "s", "f", "e", "r">>
Refunds == <<"R", "e", "f", "u", "n", "d", "s">>
Operations == <<"O", "p", "e", "r", "a", "t", "i", "o", "n", "s">>
Sales == <<"S", "a", "l", "e", "s">>
Other == <<"O", "t", "h", "e", "r">>

\* the '.' of a regular expression, inside a pattern
AnyChar == "<any>"

categoryRules == <<
    [category |-> Ads, alts |-> <<
        [kind |-> "sub", pat |-> <<"f", "a", "c", "e", "b", "o", "o", "k">>],
        [kind |-> "sub", pat |-> <<"m", "e", "t", "a", " ", "a", "d", "s">>],
        [kind |-> "sub", pat |-> <<"m", "e", "t", "a", "_", "a", "d", "s">>],
        [kind |-> "sub", pat |-> <<"f", "b", " ", "a", "d", "s">>]
    >>],
    [category |-> Ads, alts |-> <<
        [kind |-> "sub", pat |-> <<"g", "o", "o", "g", "l", "e", " ", "a", "d", "s">>],
        [kind |-> "sub", pat |-> <<"g", "o", "o", "g", "l", "e", "a", "d", "s">>],
        [kind |-> "sub", pat |-> <<"d", "l", "*", "g", "o", "o", "g", "l", "e">>],
        [kind |-> "sub", pat |-> <<"d", "l", " ", "*", "g", "o", "o", "g", "l", "e">>]
    >>],
    [category |-> Ads, alts |-> <<
        [kind |-> "sub", pat |-> <<"t", "i", "k", "t", "o", "k">>],
        [kind |-> "sub", pat |-> <<"s", "n", "a", "p", "c", "h", "a", "t">>],
        [kind |-> "sub", pat |-> <<"p", "i", "n", "t", "e", "r", "e", "s", "t", " ", "a", "d", "s">>],
        [kind |-> "sub", pat |-> <<"t", "w", "i", "t", "t", "e", "r", " ", "a", "d", "s">>],
        [kind |-> "sub", pat |-> <<"l", "i", "n", "k", "e", "d", "i", "n", " ", "a", "d", "s">>]
    >>],
    [category |-> Ads, alts |-> <<
        [kind |-> "sub", pat |-> <<"a", "d", "s", "p", "o", "w", "e", "r">>]
    >>],
    [category |-> Fees, alts |-> <<
        [kind |-> "sub", pat |-> <<"s", "h", "o", "p", "i", "f", "y">>]
    >>],
    [category |-> Fees, alts |-> <<
        [kind |-> "sub", pat |-> <<"s", "t", "r", "i", "p", "e", " ", "f", "e", "e">>],
        [kind |-> "sub", pat |-> <<"s", "t", "r", "i", "p", "e", AnyChar, "c", "o", "m">>]
    >>],
    [category |-> Fees, alts |-> <<
        [kind |-> "sub", pat |-> <<"p", "a", "y", "p", "a", "l", " ", "f", "e", "e">>]
    >>],
    [category |-> Software, alts |-> <<
        [kind |-> "sub", pat |-> <<"n", "o", "t", "i", "o", "n">>],
        [kind |-> "sub", pat |-> <<"s", "l", "a", "c", "k">>],
        [kind |-> "sub", pat |-> <<"z", "o", "o", "m">>],
        [kind |-> "sub", pat |-> <<"g", "i", "t", "h", "u", "b">>],
        [kind |-> "sub", pat |-> <<"v", "e", "r", "c", "e", "l">>],
        [kind |-> "sub", pat |-> <<"a", "w", "s">>],
        [kind |-> "sub", pat |-> <<"g", "o", "o", "g", "l", "e", " ", "c", "l", "o", "u", "d">>],
        [kind |-> "sub", pat |-> <<"h", "e", "r", "o", "k", "u">>],
        [kind |-> "sub", pat |-> <<"d", "i", "g", "i", "t", "a", "l", "o", "c", "e", "a", "n">>]
    >>],
    [category |-> Software, alts |-> <<
        [kind |-> "sub", pat |-> <<"o", "p", "e", "n", "a", "i">>],
        [kind |-> "sub", pat |-> <<"a", "n", "t", "h", "r", "o", "p", "i", "c">>],
        [kind |-> "sub", pat |-> <<"z", "a", "p", "i", "e", "r">>],
        [kind |-> "sub", pat |-> <<"a", "i", "r", "t", "a", "b", "l", "e">>],
        [kind |-> "sub", pat |-> <<"f", "i", "g", "m", "a">>],
        [kind |-> "sub", pat |-> <<"c", "a", "n", "v", "a">>],
        [kind |-> "sub", pat |-> <<"a", "d", "o", "b", "e">>],
        [kind |-> "sub", pat |-> <<"m", "i", "c", "r", "o", "s", "o", "f", "t">>],
        [kind |-> "sub", pat |-> <<"d", "r", "o", "p", "b", "o", "x">>],
        [kind |-> "sub", pat |-> <<"1", "p", "a", "s", "s", "w", "o", "r", "d">>]
    >>],
    [category |-> Software, alts |-> <<
        [kind |-> "sub", pat |-> <<"s", "t", "a", "p", "e">>],
        [kind |-> "sub", pat |-> <<"t", "r", "a", "c", "k", "i", "n", "g">>],
        [kind |-> "sub", pat |-> <<"p", "i", "x", "e", "l">>],
        [kind |-> "sub", pat |-> <<"a", "n", "a", "l", "y", "t", "i", "c", "s">>]
    >>],
    [category |-> Software, alts |-> <<
        [kind |-> "sub", pat |-> <<"p", "a", "g", "o", "u", "a", "i">>],
        [kind |-> "sub", pat |-> <<"p", "a", "g", "o", "u", " ", "a", "i">>]
    >>],
    [category |-> Software, alts |-> <<
        [kind |-> "sub", pat |-> <<"h", "o", "s", "t", "i", "n", "g", "e", "r">>],
        [kind |-> "sub", pat |-> <<"n", "a", "m", "e", "c", "h", "e", "a", "p">>],
        [kind |-> "sub", pat |-> <<"g", "o", "d", "a", "d", "d", "y">>],
        [kind |-> "sub", pat |-> <<"c", "l", "o", "u", "d", "f", "l", "a", "r", "e">>]
    >>],
    [category |-> Payroll, alts |-> <<
        [kind |-> "sub", pat |-> <<"p", "a", "y", "r", "o", "l", "l">>],
        [kind |-> "sub", pat |-> <<"s", "a", "l", "a", "r", "y">>],
        [kind |-> "sub", pat |-> <<"g", "u", "s", "t", "o">>],
        [kind |-> "sub", pat |-> <<"d", "e", "e", "l">>],
        [kind |-> "sub", pat |-> <<"r", "e", "m", "o", "t", "e", ".", "c", "o", "m">>],
        [kind |-> "sub", pat |-> <<"w", "i", "s", "e", " ", "t", "r", "a", "n", "s", "f", "e", "r">>],
        [kind |-> "sub", pat |-> <<"c", "o", "n", "t", "r", "a", "c", "t", "o", "r">>],
        [kind |-> "sub", pat |-> <<"e", "m", "p", "l", "o", "y", "e", "e">>]
    >>],
    [category |-> Shipping, alts |-> <<
        [kind |-> "sub", pat |-> <<"f", "e", "d", "e", "x">>],
        [kind |-> "sub", pat |-> <<"u", "p", "s">>],
        [kind |-> "sub", pat |-> <<"u", "s", "p", "s">>],
        [kind |-> "sub", pat |-> <<"d", "h", "l">>],
        [kind |-> "sub", pat |-> <<"s", "h", "i", "p", "s", "t", "a", "t", "i", "o", "n">>],
        [kind |-> "sub", pat |-> <<"s", "h", "i", "p", "p", "o">>],
        [kind |-> "sub", pat |-> <<"e", "a", "s", "y", "p", "o", "s", "t">>],
        [kind |-> "sub", pat |-> <<"f", "u", "l", "f", "i", "l", "l", "m", "e", "n", "t">>],
        [kind |-> "sub", pat |-> <<"s", "h", "i", "p", "p", "i", "n", "g">>],
        [kind |-> "sub", pat |-> <<"p", "o", "s", "t", "a", "g", "e">>]
    >>],
    [category |-> Fees, alts |-> <<
        [kind |-> "word", pat |-> <<"f", "e", "e">>],
        [kind |-> "sub", pat |-> <<"c", "h", "a", "r", "g", "e">>],
        [kind |-> "sub", pat |-> <<"i", "n", "t", "e", "r", "e", "s", "t">>],
        [kind |-> "sub", pat |-> <<"p", "e", "n", "a", "l", "t", "y">>],
        [kind |-> "sub", pat |-> <<"o", "v", "e", "r", "d", "r", "a", "f", "t">>],
        [kind |-> "sub", pat |-> <<"w", "i", "r", "e", " ", "f", "e", "e">>],
        [kind |-> "sub", pat |-> <<"m", "o", "n", "t", "h", "l", "y", " ", "s", "e", "r", "v", "i", "c", "e">>]
    >>],
    [category |-> Transfer, alts |-> <<
        [kind |-> "exact", pat |-> <<"b", "u", "s", "i", "n", "e", "s", "s", " ", "s", "a", "v", "i", "n", "g", "s">>],
        [kind |-> "exact", pat |-> <<"b", "u", "s", "i", "n", "e", "s", "s", " ", "c", "h", "e", "c", "k", "i", "n", "g">>],
        [kind |-> "exact", pat |-> <<"s", "a", "v", "i", "n", "g", "s", " ", "a", "c", "c", "o", "u", "n", "t">>],
        [kind |-> "exact", pat |-> <<"c", "h", "e", "c", "k", "i", "n", "g", " ", "a", "c", "c", "o", "u", "n", "t">>]
    >>],
    [category |-> Transfer, alts |-> <<
        [kind |-> "exact", pat |-> <<"p", "a", "r", "a", " ", "m", "a", "i", "n">>],
        [kind |-> "exact", pat |-> <<"d", "e", " ", "m", "a", "i", "n">>],
        [kind |-> "exact", pat |-> <<"f", "r", "o", "m", " ", "m", "a", "i", "n">>],
        [kind |-> "exact", pat |-> <<"t", "o", " ", "m", "a", "i", "n">>]
    >>],
    [category |-> Refunds, alts |-> <<
        [kind |-> "sub", pat |-> <<"r", "e", "f", "u", "n", "d">>],
        [kind |-> "sub", pat |-> <<"c", "h", "a", "r", "g", "e", "b", "a", "c", "k">>],
        [kind |-> "sub", pat |-> <<"d", "i", "s", "p", "u", "t", "e">>],
        [kind |-> "sub", pat |-> <<"r", "e", "v", "e", "r", "s", "a", "l">>],
        [kind |-> "sub", pat |-> <<"r", "e", "t", "u", "r", "n">>]
    >>],
    [category |-> Operations, alts |-> <<
        [kind |-> "sub", pat |-> <<"c", "h", "a", "v", "e", "i", "r", "o">>],
        [kind |-> "sub", pat |-> <<"o", "f", "f", "i", "c", "e">>],
        [kind |-> "sub", pat |-> <<"s", "u", "p", "p", "l", "i", "e", "s">>],
        [kind |-> "sub", pat |-> <<"e", "q", "u", "i", "p", "m", "e", "n", "t">>]
    >>]
>>

SetMin(S) == CHOOSE x \in S : \A y \in S : x <= y

PatMatchAt(s, p, i) ==
    /\ i >= 1
    /\ i + Len(p) - 1 <= Len(s)
    /\ \A j \in 1..Len(p) : p[j] = AnyChar \/ s[i + j - 1] = p[j]

\* one alternative of a pattern: a substring, a whole-text match (^...$) or a
\* word (\b...\b)
AltMatches(text, alt) ==
    IF alt.kind = "exact" THEN text = alt.pat
    ELSE IF alt.kind = "word" THEN
        \E i \in 1..Len(text) :
            /\ PatMatchAt(text, alt.pat, i)
            /\ (i = 1 \/ ~IsWordChar(text[i - 1]))
            /\ (i + Len(alt.pat) > Len(text) \/ ~IsWordChar(text[i + Len(alt.pat)]))
    ELSE \E i \in 1..(Len(text) + 1) : PatMatchAt(text, alt.pat, i)

RuleTest(text, rule) == \E k \in 1..Len(rule.alts) : AltMatches(text, rule.alts[k])

detectCategory(description, payee) ==
    LET textToCheck == toLowerCase(payee \o <<" ">> \o description)
        hits == {r \in 1..Len(categoryRules) : RuleTest(textToCheck, categoryRules[r])}
    IN  IF hits = {} THEN Other ELSE categoryRules[SetMin(hits)].category

BoilerplatePrefixes == <<<<"p", "a", "y", "m", "e", "n", "t", " ", "t", "o">>, <<"p", "a", "y", "m", "e", "n", "t", " ", "f", "r", "o", "m">>, <<"d", "i", "r", "e", "c", "t", " ", "d", "e", "b", "i", "t">>,
                         <<"c", "a", "r", "d", " ", "p", "a", "y", "m", "e", "n", "t">>, <<"p", "o", "s">>, <<"p", "u", "r", "c", "h", "a", "s", "e">>>>

\* s.toLowerCase().replace(/\b\w/g, c => c.toUpperCase())
TitleCase(s) ==
    LET low == toLowerCase(s)
    IN  [i \in 1..Len(low) |->
            IF IsWordChar(low[i]) /\ (i = 1 \/ ~IsWordChar(low[i - 1]))
            THEN UpperChar(low[i]) ELSE low[i]]

\* s.replace(/^(payment to|...|purchase)\s*/i, '')
StripBoilerplate(s) ==
    LET low == toLowerCase(s)
        hits == {k \in 1..Len(BoilerplatePrefixes) : startsWith(low, BoilerplatePrefixes[k])}
    IN  IF hits = {} THEN s
        ELSE LET rest == substringFrom(s, Len(BoilerplatePrefixes[SetMin(hits)]))
             IN  substringFrom(rest, LeadingSpaces(rest))

cleanDescription(desc, payee) ==
    LET text == IF desc = <<>> \/ toLowerCase(desc) = <<"u", "n", "k", "n", "o", "w", "n">> \/ trim(desc) = <<>>
                THEN (IF payee # <<>> THEN payee ELSE <<"T", "r", "a", "n", "s", "a", "c", "t", "i", "o", "n">>)
                ELSE desc
        cleaned0 == trim(text)
        cleaned1 == IF cleaned0 = toUpperCase(cleaned0) /\ Len(cleaned0) > 3
                    THEN TitleCase(cleaned0) ELSE cleaned0
        cleaned2 == substringTo(StripBoilerplate(cleaned1), 80)
    IN  IF cleaned2 = <<>> THEN <<"T", "r", "a", "n", "s", "a", "c", "t", "i", "o", "n">> ELSE cleaned2

---------------------------------------------------------------------------
(* Dates *)

\* the date part of new Date().toISOString() at the time of the import
TODAY == <<"2", "0", "2", "5", "-", "1", "2", "-", "1", "5">>

RECURSIVE IntToText(_)
IntToText(n) == IF n < 10 THEN <<Digits[n + 1]>> ELSE IntToText(n \div 10) \o <<Digits[(n % 10) + 1]>>

\* parseInt(p) of a text without sign or leading blanks: the leading digits, or NaN
parseInt(p) ==
    LET k == DigitPrefixLen(p)
    IN  IF k = 0 THEN [nan |-> TRUE, v |-> 0] ELSE [nan |-> FALSE, v |-> DigitsVal(SubSeq(p, 1, k))]

\* String(x).padStart(2, '0')
Pad2(x) ==
    IF x.nan THEN <<"N", "a", "N">>
    ELSE IF x.v < 10 THEN <<"0">> \o IntToText(x.v) ELSE IntToText(x.v)
NumText(x) == IF x.nan THEN <<"N", "a", "N">> ELSE IntToText(x.v)

\* s.split(sep) for a set of one-character separators
RECURSIVE Split(_, _)
Split(s, seps) ==
    IF \A i \in 1..Len(s) : s[i] \notin seps THEN <<s>>
    ELSE LET k == SetMin({i \in 1..Len(s) : s[i] \in seps})
         IN  <<SubSeq(s, 1, k - 1)>> \o Split(SubSeq(s, k + 1, Len(s)), seps)

\* /^\d{4}-\d{2}-\d{2}$/
IsIsoShape(s) ==
    /\ Len(s) = 10
    /\ s[5] = "-" /\ s[8] = "-"
    /\ \A i \in {1, 2, 3, 4, 6, 7, 9, 10} : IsDigit(s[i])

(***************************************************************************)
(* new Date(dateStr): the engine's own date grammar, which the source      *)
(* reaches only for texts none of its own rules parse.  The texts the      *)
(* engine is taken to accept here are listed; every other text is an       *)
(* Invalid Date.                                                           *)
(***************************************************************************)
NativeDates == { [text |-> <<"N", "o", "v", " ", "5", " ", "2", "0", "2", "5">>, iso |-> <<"2", "0", "2", "5", "-", "1", "1", "-", "0", "5">>] }
nativeDate(dateStr) ==
    IF \E e \in NativeDates : e.text = dateStr
    THEN [valid |-> TRUE, iso |-> (CHOOSE e \in NativeDates : e.text = dateStr).iso]
    ELSE [valid |-> FALSE, iso |-> <<>>]

parseDate(dateStr) ==
    IF dateStr = <<>> THEN TODAY
    ELSE
    LET cleaned == Split(trim(dateStr), {" "})[1]
        parts == Split(cleaned, {"/", "-"})
    IN  IF IsIsoShape(cleaned) THEN cleaned
        ELSE
        LET a == parseInt(parts[1])
            b == parseInt(parts[2])
            c == parseInt(parts[3])
        IN  IF Len(parts) = 3 /\ ~c.nan /\ c.v > 1000 THEN
                IF ~a.nan /\ a.v > 12
                THEN NumText(c) \o <<"-">> \o Pad2(b) \o <<"-">> \o Pad2(a)
                ELSE NumText(c) \o <<"-">> \o Pad2(a) \o <<"-">> \o Pad2(b)
            ELSE IF Len(parts) = 3 /\ ~a.nan /\ a.v > 1000 THEN
                NumText(a) \o <<"-">> \o Pad2(b) \o <<"-">> \o Pad2(c)
            ELSE IF nativeDate(dateStr).valid THEN nativeDate(dateStr).iso
            ELSE TODAY

---------------------------------------------------------------------------
(* parseCSVLocally *)

\* Conta do Relay para marcar como internal automaticamente
RELAY_ACCOUNT == <<"2", "0", "0", "0", "0", "0", "8", "0", "5", "7", "8", "1">>

\* Array.prototype.indexOf / findIndex: a 0-based index, or -1
indexOf(arr, x) ==
    IF \E k \in 1..Len(arr) : arr[k] = x
    THEN SetMin({k \in 1..Len(arr) : arr[k] = x}) - 1 ELSE -1
findIndex(arr, P(_)) ==
    IF \E k \in 1..Len(arr) : P(arr[k])
    THEN SetMin({k \in 1..Len(arr) : P(arr[k])}) - 1 ELSE -1
\* values[idx] || '' : an index outside the array reads undefined
At(values, idx) == IF idx >= 0 /\ idx < Len(values) THEN values[idx + 1] ELSE <<>>
\* x || dflt
OrText(x, dflt) == IF x = <<>> THEN dflt ELSE x

\* parseCSVLine(lines[0]).map(h => h.toLowerCase().trim())
HeadersOf(lines) == [k \in 1..Len(lines[1]) |-> trim(toLowerCase(lines[1][k]))]

hasHeader(headers, h) == \E k \in 1..Len(headers) : headers[k] = h
IsDateHeader(h) == includes(h, <<"d", "a", "t", "e", " ", "c", "o", "m", "p", "l", "e", "t", "e", "d">>) \/ includes(h, <<"d", "a", "t", "e", " ", "s", "t", "a", "r", "t", "e", "d">>)

isRelay(headers) == hasHeader(headers, <<"p", "a", "y", "e", "e">>) /\ hasHeader(headers, <<"t", "r", "a", "n", "s", "a", "c", "t", "i", "o", "n", " ", "t", "y", "p", "e">>)
isRevolut(headers) ==
    /\ \E k \in 1..Len(headers) :
           includes(headers[k], <<"d", "a", "t", "e", " ", "s", "t", "a", "r", "t", "e", "d">>) \/ includes(headers[k], <<"d", "a", "t", "e", " ", "c", "o", "m", "p", "l", "e", "t", "e", "d">>)
    /\ hasHeader(headers, <<"t", "y", "p", "e">>)
isMercury(headers) == hasHeader(headers, <<"b", "a", "n", "k", " ", "d", "e", "s", "c", "r", "i", "p", "t", "i", "o", "n">>)

bankNameMutRevolutFirst(headers) ==
    IF isRevolut(headers) THEN "Revolut"
    ELSE IF isRelay(headers) THEN "Relay"
    ELSE IF isMercury(headers) THEN "Mercury"
    ELSE "Imported"
bankName(headers) ==
    IF isRelay(headers) THEN "Relay"
    ELSE IF isRevolut(headers) THEN "Revolut"
    ELSE IF isMercury(headers) THEN "Mercury"
    ELSE "Imported"

\* the amount of a row: parseFloat(amountStr.replace(/[^0-9.-]/g, '')) || 0
RowAmount(amountField) == OrZero(StrippedFloat(OrText(amountField, <<"0">>)))

\* type = amount > 0 ? 'income' : 'expense'
SignType(amount) == IF NumPos(amount) THEN "income" ELSE "expense"

\* page.tsx:3752, 3756: the rows the Relay loop skips
RelaySkipsRowMutKeepZero(values, amount) == Len(values) < 2
RelaySkipsRow(values, amount) == Len(values) < 2 \/ NumIsZero(amount)
\* page.tsx:3842, 3846
RevolutSkipsRowMutKeepZero(values, amount) == Len(values) < 5
RevolutSkipsRow(values, amount) == Len(values) < 5 \/ NumIsZero(amount)
\* page.tsx:3941, 3945
GenericSkipsRowMutKeepZero(values, amount) == Len(values) < 2
GenericSkipsRow(values, amount) == Len(values) < 2 \/ NumIsZero(amount)

\* /^(revolut|relay)$/i.test(payee)
isFromOtherBank(payee) == toLowerCase(payee) \in {<<"r", "e", "v", "o", "l", "u", "t">>, <<"r", "e", "l", "a", "y">>}

\* page.tsx:3771-3797
RelayClassifyMutNoSiblingBank(txType, payee, rawDesc, amount) ==
    LET txTypeLower == toLowerCase(txType)
    IN  IF txTypeLower = <<"s", "p", "e", "n", "d">>
        THEN [type |-> "expense", category |-> detectCategory(rawDesc, payee)]
        ELSE IF txTypeLower = <<"r", "e", "c", "e", "i", "v", "e">>
        THEN [type |-> "income", category |-> Sales]
        ELSE IF includes(txTypeLower, <<"t", "r", "a", "n", "s", "f", "e", "r">>)
        THEN [type |-> "internal", category |-> Transfer]
        ELSE [type |-> SignType(amount),
              category |-> IF SignType(amount) = "income" THEN Sales
                           ELSE detectCategory(rawDesc, payee)]
RelayClassify(txType, payee, rawDesc, amount) ==
    LET txTypeLower == toLowerCase(txType)
    IN  IF txTypeLower = <<"s", "p", "e", "n", "d">>
        THEN [type |-> "expense", category |-> detectCategory(rawDesc, payee)]
        ELSE IF txTypeLower = <<"r", "e", "c", "e", "i", "v", "e">>
        THEN (IF isFromOtherBank(payee)
              THEN [type |-> "internal", category |-> Transfer]
              ELSE [type |-> "income", category |-> Sales])
        ELSE IF includes(txTypeLower, <<"t", "r", "a", "n", "s", "f", "e", "r">>)
        THEN [type |-> "internal", category |-> Transfer]
        ELSE [type |-> SignType(amount),
              category |-> IF SignType(amount) = "income" THEN Sales
                           ELSE detectCategory(rawDesc, payee)]

\* page.tsx:3858-3903
RevolutClassifyMutTeamFirst(revolut_type, beneficiaryAccount, rawDesc, amount, teamMembers) ==
    LET detected == detectCategory(rawDesc, <<>>)
    IN  IF revolut_type = <<"C", "A", "R", "D", "_", "P", "A", "Y", "M", "E", "N", "T">> THEN [type |-> "expense", category |-> detected]
        ELSE IF revolut_type = <<"F", "E", "E">> THEN [type |-> "expense", category |-> Fees]
        ELSE IF revolut_type = <<"T", "O", "P", "U", "P">> THEN [type |-> "income", category |-> Sales]
        ELSE IF revolut_type \in {<<"R", "E", "F", "U", "N", "D">>, <<"C", "A", "R", "D", "_", "R", "E", "F", "U", "N", "D">>}
        THEN [type |-> "income", category |-> Refunds]
        ELSE IF revolut_type = <<"E", "X", "C", "H", "A", "N", "G", "E">> THEN [type |-> "internal", category |-> Transfer]
        ELSE IF revolut_type = <<"T", "R", "A", "N", "S", "F", "E", "R">> THEN
            IF beneficiaryAccount = <<>> THEN [type |-> "internal", category |-> Transfer]
            ELSE IF \E m \in 1..Len(teamMembers) :
                        teamMembers[m].beneficiaryAccount = beneficiaryAccount
            THEN [type |-> "expense", category |-> Payroll]
            ELSE IF beneficiaryAccount = RELAY_ACCOUNT
            THEN [type |-> "internal", category |-> Transfer]
            ELSE [type |-> "expense", category |-> Other]
        ELSE [type |-> SignType(amount), category |-> detected]
RevolutClassifyMutCardRefund(revolut_type, beneficiaryAccount, rawDesc, amount, teamMembers) ==
    LET detected == detectCategory(rawDesc, <<>>)
    IN  IF revolut_type = <<"C", "A", "R", "D", "_", "P", "A", "Y", "M", "E", "N", "T">> THEN [type |-> "expense", category |-> detected]
        ELSE IF revolut_type = <<"F", "E", "E">> THEN [type |-> "expense", category |-> Fees]
        ELSE IF revolut_type = <<"T", "O", "P", "U", "P">> THEN [type |-> "income", category |-> Sales]
        ELSE IF revolut_type \in {<<"R", "E", "F", "U", "N", "D">>}
        THEN [type |-> "income", category |-> Refunds]
        ELSE IF revolut_type = <<"E", "X", "C", "H", "A", "N", "G", "E">> THEN [type |-> "internal", category |-> Transfer]
        ELSE IF revolut_type = <<"T", "R", "A", "N", "S", "F", "E", "R">> THEN
            IF beneficiaryAccount = <<>> THEN [type |-> "internal", category |-> Transfer]
            ELSE IF beneficiaryAccount = RELAY_ACCOUNT
            THEN [type |-> "internal", category |-> Transfer]
            ELSE IF \E m \in 1..Len(teamMembers) :
                        teamMembers[m].beneficiaryAccount = beneficiaryAccount
            THEN [type |-> "expense", category |-> Payroll]
            ELSE [type |-> "expense", category |-> Other]
        ELSE [type |-> SignType(amount), category |-> detected]
RevolutClassify(revolut_type, beneficiaryAccount, rawDesc, amount, teamMembers) ==
    LET detected == detectCategory(rawDesc, <<>>)
    IN  IF revolut_type = <<"C", "A", "R", "D", "_", "P", "A", "Y", "M", "E", "N", "T">> THEN [type |-> "expense", category |-> detected]
        ELSE IF revolut_type = <<"F", "E", "E">> THEN [type |-> "expense", category |-> Fees]
        ELSE IF revolut_type = <<"T", "O", "P", "U", "P">> THEN [type |-> "income", category |-> Sales]
        ELSE IF revolut_type \in {<<"R", "E", "F", "U", "N", "D">>, <<"C", "A", "R", "D", "_", "R", "E", "F", "U", "N", "D">>}
        THEN [type |-> "income", category |-> Refunds]
        ELSE IF revolut_type = <<"E", "X", "C", "H", "A", "N", "G", "E">> THEN [type |-> "internal", category |-> Transfer]
        ELSE IF revolut_type = <<"T", "R", "A", "N", "S", "F", "E", "R">> THEN
            IF beneficiaryAccount = <<>> THEN [type |-> "internal", category |-> Transfer]
            ELSE IF beneficiaryAccount = RELAY_ACCOUNT
            THEN [type |-> "internal", category |-> Transfer]
            ELSE IF \E m \in 1..Len(teamMembers) :
                        teamMembers[m].beneficiaryAccount = beneficiaryAccount
            THEN [type |-> "expense", category |-> Payroll]
            ELSE [type |-> "expense", category |-> Other]
        ELSE [type |-> SignType(amount), category |-> detected]

\* the amount in USD and the original amount and currency kept beside it
Converted(amount, originalCurrency, rates) ==
    [amount |-> convertToUSD(amount, originalCurrency, rates).value,
     originalAmount |-> IF originalCurrency # USD THEN amount ELSE NoNum,
     originalCurrency |-> IF originalCurrency # USD THEN originalCurrency ELSE <<>>]

\* page.tsx:3750-3825: one iteration of the Relay loop
RelayRow(headers, values, id, rates) ==
    LET amount == RowAmount(At(values, indexOf(headers, <<"a", "m", "o", "u", "n", "t">>)))
        payee == At(values, indexOf(headers, <<"p", "a", "y", "e", "e">>))
        accountNum == At(values, indexOf(headers, <<"a", "c", "c", "o", "u", "n", "t", " ", "#">>))
        txType == At(values, indexOf(headers, <<"t", "r", "a", "n", "s", "a", "c", "t", "i", "o", "n", " ", "t", "y", "p", "e">>))
        rawDesc == At(values, indexOf(headers, <<"d", "e", "s", "c", "r", "i", "p", "t", "i", "o", "n">>))
        reference == At(values, indexOf(headers, <<"r", "e", "f", "e", "r", "e", "n", "c", "e">>))
        status == At(values, indexOf(headers, <<"s", "t", "a", "t", "u", "s">>))
        balance == OrUndefinedNum(StrippedFloat(At(values, indexOf(headers, <<"b", "a", "l", "a", "n", "c", "e">>))))
        cls == RelayClassify(txType, payee, rawDesc, amount)
        originalCurrency == OrText(At(values, indexOf(headers, <<"c", "u", "r", "r", "e", "n", "c", "y">>)), USD)
        conv == Converted(amount, originalCurrency, rates)
    IN  [skip |-> RelaySkipsRow(values, amount),
         tx |-> [id |-> id,
                 date |-> parseDate(At(values, indexOf(headers, <<"d", "a", "t", "e">>))),
                 description |-> cleanDescription(rawDesc, payee),
                 reference |-> OrText(reference, rawDesc),
                 bank |-> bankName(headers),
                 account |-> originalCurrency,
                 type |-> cls.type,
                 category |-> cls.category,
                 amount |-> conv.amount,
                 currency |-> USD,
                 originalAmount |-> conv.originalAmount,
                 originalCurrency |-> conv.originalCurrency,
                 payee |-> payee,
                 accountNumber |-> accountNum,
                 transactionType |-> txType,
                 status |-> status,
                 balance |-> balance,
                 period |-> <<>>]]

\* page.tsx:3840-3931: one iteration of the Revolut loop
RevolutRow(headers, values, id, teamMembers, rates) ==
    LET dateIdx == findIndex(headers, IsDateHeader)
        refIdx == indexOf(headers, <<"r", "e", "f", "e", "r", "e", "n", "c", "e">>)
        currencyIdx == IF indexOf(headers, <<"p", "a", "y", "m", "e", "n", "t", " ", "c", "u", "r", "r", "e", "n", "c", "y">>) # -1
                       THEN indexOf(headers, <<"p", "a", "y", "m", "e", "n", "t", " ", "c", "u", "r", "r", "e", "n", "c", "y">>)
                       ELSE indexOf(headers, <<"c", "u", "r", "r", "e", "n", "c", "y">>)
        amount == RowAmount(At(values, indexOf(headers, <<"a", "m", "o", "u", "n", "t">>)))
        revolut_type == toUpperCase(At(values, indexOf(headers, <<"t", "y", "p", "e">>)))
        rawDesc == At(values, indexOf(headers, <<"d", "e", "s", "c", "r", "i", "p", "t", "i", "o", "n">>))
        reference == At(values, refIdx)
        state == At(values, indexOf(headers, <<"s", "t", "a", "t", "e">>))
        beneficiaryAccount == trim(At(values, indexOf(headers, <<"b", "e", "n", "e", "f", "i", "c", "i", "a", "r", "y", " ", "a", "c", "c", "o", "u", "n", "t", " ", "n", "u", "m", "b", "e", "r">>)))
        beneficiaryName == trim(At(values, indexOf(headers, <<"b", "e", "n", "e", "f", "i", "c", "i", "a", "r", "y", " ", "n", "a", "m", "e">>)))
        balance == OrUndefinedNum(StrippedFloat(At(values, indexOf(headers, <<"b", "a", "l", "a", "n", "c", "e">>))))
        cls == RevolutClassify(revolut_type, beneficiaryAccount, rawDesc, amount, teamMembers)
        originalCurrency == OrText(At(values, currencyIdx), USD)
        conv == Converted(amount, originalCurrency, rates)
    IN  [skip |-> RevolutSkipsRow(values, amount),
         tx |-> [id |-> id,
                 date |-> parseDate(At(values, dateIdx)),
                 description |-> cleanDescription(rawDesc, <<>>),
                 reference |-> OrText(reference, rawDesc),
                 bank |-> bankName(headers),
                 account |-> originalCurrency,
                 type |-> cls.type,
                 category |-> cls.category,
                 amount |-> conv.amount,
                 currency |-> USD,
                 originalAmount |-> conv.originalAmount,
                 originalCurrency |-> conv.originalCurrency,
                 payee |-> beneficiaryName,
                 accountNumber |-> beneficiaryAccount,
                 transactionType |-> revolut_type,
                 status |-> state,
                 balance |-> balance,
                 period |-> <<>>]]

IsGenericDate(h) == includes(h, <<"d", "a", "t", "e">>)
IsGenericDesc(h) == includes(h, <<"d", "e", "s", "c", "r", "i", "p", "t", "i", "o", "n">>) \/ includes(h, <<"m", "e", "m", "o">>)
IsGenericAmount(h) == includes(h, <<"a", "m", "o", "u", "n", "t">>) \/ includes(h, <<"v", "a", "l", "u", "e">>)
IsGenericCurrency(h) == includes(h, <<"c", "u", "r", "r", "e", "n", "c", "y">>)

\* page.tsx:3939-3971: one iteration of the generic (Mercury, Imported) loop
GenericRow(headers, values, id, rates) ==
    LET dateIdx == findIndex(headers, IsGenericDate)
        descIdx == findIndex(headers, IsGenericDesc)
        amountIdx == findIndex(headers, IsGenericAmount)
        currencyIdx == findIndex(headers, IsGenericCurrency)
        amount == RowAmount(At(values, IF amountIdx >= 0 THEN amountIdx ELSE 2))
        rawDesc == At(values, IF descIdx >= 0 THEN descIdx ELSE 1)
        originalCurrency == OrText(At(values, currencyIdx), USD)
        conv == Converted(amount, originalCurrency, rates)
    IN  [skip |-> GenericSkipsRow(values, amount),
         tx |-> [id |-> id,
                 date |-> parseDate(At(values, IF dateIdx >= 0 THEN dateIdx ELSE 0)),
                 description |-> cleanDescription(rawDesc, <<>>),
                 reference |-> rawDesc,
                 bank |-> bankName(headers),
                 account |-> originalCurrency,
                 type |-> SignType(amount),
                 category |-> detectCategory(rawDesc, <<>>),
                 amount |-> conv.amount,
                 currency |-> USD,
                 originalAmount |-> conv.originalAmount,
                 originalCurrency |-> conv.originalCurrency,
                 payee |-> <<>>,
                 accountNumber |-> <<>>,
                 transactionType |-> <<>>,
                 status |-> <<>>,
                 balance |-> NoNum,
                 period |-> <<>>]]

\* the loop body the detected dialect selects, for line i (1-based, the header is line 1)
ParseRow(lines, i, teamMembers, rates, idBase) ==
    LET headers == HeadersOf(lines)
    IN  IF isRelay(headers) THEN RelayRow(headers, lines[i], idBase + i, rates)
        ELSE IF isRevolut(headers)
        THEN RevolutRow(headers, lines[i], idBase + i, teamMembers, rates)
        ELSE GenericRow(headers, lines[i], idBase + i, rates)

RECURSIVE ParseFrom(_, _, _, _, _)
ParseFrom(lines, i, teamMembers, rates, idBase) ==
    IF i > Len(lines) THEN <<>>
    ELSE LET r == ParseRow(lines, i, teamMembers, rates, idBase)
         IN  (IF r.skip THEN <<>> ELSE <<r.tx>>)
                 \o ParseFrom(lines, i + 1, teamMembers, rates, idBase)

(***************************************************************************)
(* parseCSVLocally(csvContent, fileName, teamMembers, exchangeRates).      *)
(* lines are the non-blank lines of csvContent, each as parseCSVLine       *)
(* tokenizes it; an exchangeRates argument of undefined takes the          *)
(* parameter's default, {}.  Transaction ids (crypto.randomUUID) are       *)
(* idBase + the line number.                                               *)
(***************************************************************************)
parseCSVLocally(lines, teamMembers, exchangeRates, idBase) ==
    LET rates == IF exchangeRates.isMap THEN exchangeRates ELSE RateTable(EmptyMap)
    IN  IF Len(lines) < 2 THEN <<>>
        ELSE ParseFrom(lines, 2, teamMembers, rates, idBase)

---------------------------------------------------------------------------
(* getExchangeRates and its cache *)

\* exchangeRatesCache = null
NoCache == [set |-> FALSE, rates |-> NotAMap, timestamp |-> 0]
NoFetch == [ok |-> FALSE, rates |-> NotAMap, at |-> 0]
\* the calls of getExchangeRates that can be under way at once: that of a modal
\* closed while it was analysing, and that of the modal opened after it
MaxCalls == 2
Callers == 1..MaxCalls
NoCall == [pc |-> "idle", returned |-> FALSE, ret |-> NotAMap, fetched |-> FALSE,
           hadFresh |-> FALSE, freshRates |-> NotAMap, failed |-> FALSE]

\* what the request to the rate service can come to: a body whose rates member
\* is a mapping, a body without one, or a rejected fetch / unparseable body
ApiResponses ==
    {[ok |-> TRUE, rates |-> ApiRatesA], [ok |-> TRUE, rates |-> NotAMap],
     [ok |-> FALSE, rates |-> NotAMap]}

\* page.tsx:92: the cache is there and younger than CACHE_DURATION
CacheFreshMutShortLived(cache, t) == cache.set /\ t - cache.timestamp < 1000 * 60
CacheFresh(cache, t) == cache.set /\ t - cache.timestamp < CACHE_DURATION

\* page.tsx:96-119: the cache and the returned table once the request has settled
FetchOutcomeMutCacheFallback(cache, resp, t) ==
    IF resp.ok
    THEN [cache |-> [set |-> TRUE, rates |-> resp.rates, timestamp |-> t], ret |-> resp.rates]
    ELSE [cache |-> [set |-> TRUE, rates |-> FallbackRates, timestamp |-> t],
          ret |-> FallbackRates]
FetchOutcome(cache, resp, t) ==
    IF resp.ok
    THEN [cache |-> [set |-> TRUE, rates |-> resp.rates, timestamp |-> t], ret |-> resp.rates]
    ELSE [cache |-> cache, ret |-> FallbackRates]

\* the clock advances in steps of half an hour
TickMs == 30 * 60 * 1000
MaxTicks == 4

\* history: the last successful fetch is less than CACHE_DURATION before t
FetchedWithinTheHour(t) == lastFetch.ok /\ t - lastFetch.at < CACHE_DURATION

\* call k of getExchangeRates() up to its first await: the cached table is
\* returned, or the request is sent
CallStarts(k) ==
    /\ ratesCall[k].pc = "idle"
    /\ ratesCall' = [ratesCall EXCEPT ![k] =
          IF CacheFresh(exchangeRatesCache, now)
          THEN [pc |-> "idle", returned |-> TRUE, ret |-> exchangeRatesCache.rates,
                fetched |-> FALSE, hadFresh |-> FetchedWithinTheHour(now),
                freshRates |-> lastFetch.rates, failed |-> FALSE]
          ELSE [pc |-> "fetching", returned |-> FALSE, ret |-> NotAMap,
                fetched |-> TRUE, hadFresh |-> FetchedWithinTheHour(now),
                freshRates |-> lastFetch.rates, failed |-> FALSE]]
    /\ UNCHANGED <<exchangeRatesCache, now, lastFetch>>

\* the request of call k settles with resp: the rest of getExchangeRates
CallSettles(k, resp) ==
    /\ ratesCall[k].pc = "fetching"
    /\ LET out == FetchOutcome(exchangeRatesCache, resp, now)
       IN  /\ exchangeRatesCache' = out.cache
           /\ ratesCall' = [ratesCall EXCEPT ![k].pc = "idle", ![k].returned = TRUE,
                                             ![k].ret = out.ret, ![k].failed = ~resp.ok]
           /\ lastFetch' = IF resp.ok THEN [ok |-> TRUE, rates |-> resp.rates, at |-> now]
                           ELSE lastFetch
    /\ UNCHANGED now

GetExchangeRates ==
    \E k \in Callers : CallStarts(k) /\ UNCHANGED <<parseVars, convVars, appVars>>
FetchSettles ==
    \E k \in Callers, resp \in ApiResponses :
        CallSettles(k, resp) /\ UNCHANGED <<parseVars, convVars, appVars>>

Tick ==
    /\ now < MaxTicks * TickMs
    /\ now' = now + TickMs
    /\ UNCHANGED <<exchangeRatesCache, ratesCall, lastFetch, parseVars, convVars, appVars>>

RatesInit ==
    /\ exchangeRatesCache = NoCache
    /\ now = 0
    /\ ratesCall = [k \in Callers |-> NoCall]
    /\ lastFetch = NoFetch

---------------------------------------------------------------------------
(* One convertToUSD call on drawn arguments *)

ConvAmounts == {Num(125, 10), Num(-21, 1), Num(3, 1), Zero, Num(-5, 2)}
ConvCurrencies == {USD, <<>>, EUR, GBP, BRL, XYZ, <<"u", "s", "d">>}
ConvTables == {FallbackRates, ApiRatesA, ApiRatesB, ZeroRates, RateTable(EmptyMap), NotAMap}
NoResult == [threw |-> FALSE, value |-> NoNum]
ConvIdle == [done |-> TRUE, amount |-> Zero, fromCurrency |-> USD, rates |-> NotAMap,
             result |-> NoResult]

ConvInit ==
    \E a \in ConvAmounts, c \in ConvCurrencies, r \in ConvTables :
        convCall = [done |-> FALSE, amount |-> a, fromCurrency |-> c, rates |-> r,
                    result |-> NoResult]

ConvertToUSD ==
    /\ ~convCall.done
    /\ convCall' = [convCall EXCEPT
                       !.done = TRUE,
                       !.result = convertToUSD(convCall.amount, convCall.fromCurrency,
                                               convCall.rates)]
    /\ UNCHANGED <<ratesVars, parseVars, appVars>>

---------------------------------------------------------------------------
(* Statement files: a header line and rows drawn field by field *)

RelayHeader == <<<<"D", "a", "t", "e">>, <<"P", "a", "y", "e", "e">>, <<"A", "c", "c", "o", "u", "n", "t", " ", "#">>, <<"T", "r", "a", "n", "s", "a", "c", "t", "i", "o", "n", " ", "T", "y", "p", "e">>, <<"D", "e", "s", "c", "r", "i", "p", "t", "i", "o", "n">>,
                 <<"R", "e", "f", "e", "r", "e", "n", "c", "e">>, <<"S", "t", "a", "t", "u", "s">>, <<"A", "m", "o", "u", "n", "t">>, <<"C", "u", "r", "r", "e", "n", "c", "y">>, <<"B", "a", "l", "a", "n", "c", "e">>>>
RevolutHeader == <<<<"D", "a", "t", "e", " ", "s", "t", "a", "r", "t", "e", "d", " ", "(", "U", "T", "C", ")">>, <<"D", "a", "t", "e", " ", "c", "o", "m", "p", "l", "e", "t", "e", "d", " ", "(", "U", "T", "C", ")">>, <<"I", "D">>, <<"T", "y", "p", "e">>, <<"S", "t", "a", "t", "e">>,
                   <<"D", "e", "s", "c", "r", "i", "p", "t", "i", "o", "n">>, <<"R", "e", "f", "e", "r", "e", "n", "c", "e">>, <<"A", "m", "o", "u", "n", "t">>, <<"P", "a", "y", "m", "e", "n", "t", " ", "c", "u", "r", "r", "e", "n", "c", "y">>, <<"B", "a", "l", "a", "n", "c", "e">>,
                   <<"B", "e", "n", "e", "f", "i", "c", "i", "a", "r", "y", " ", "a", "c", "c", "o", "u", "n", "t", " ", "n", "u", "m", "b", "e", "r">>, <<"B", "e", "n", "e", "f", "i", "c", "i", "a", "r", "y", " ", "n", "a", "m", "e">>>>
MercuryHeader == <<<<"D", "a", "t", "e">>, <<"D", "e", "s", "c", "r", "i", "p", "t", "i", "o", "n">>, <<"A", "m", "o", "u", "n", "t">>, <<"C", "u", "r", "r", "e", "n", "c", "y">>, <<"B", "a", "n", "k", " ", "D", "e", "s", "c", "r", "i", "p", "t", "i", "o", "n">>>>
PlainHeader == <<<<"P", "o", "s", "t", "e", "d">>, <<"M", "e", "m", "o">>, <<"V", "a", "l", "u", "e">>>>
\* headers that carry the signature of more than one bank
RelayRevolutHeader == RelayHeader \o <<<<"T", "y", "p", "e">>, <<"D", "a", "t", "e", " ", "s", "t", "a", "r", "t", "e", "d", " ", "(", "U", "T", "C", ")">>, <<"B", "a", "n", "k", " ", "D", "e", "s", "c", "r", "i", "p", "t", "i", "o", "n">>>>
RevolutMercuryHeader == RevolutHeader \o <<<<"B", "a", "n", "k", " ", "D", "e", "s", "c", "r", "i", "p", "t", "i", "o", "n">>>>
Headers == {RelayHeader, RevolutHeader, MercuryHeader, PlainHeader,
            RelayRevolutHeader, RevolutMercuryHeader}

\* amount fields: of either sign, zero in several spellings, absent, unparseable
AmountFields == {<<"1", "2", ".", "5">>, <<"-", "2", "1">>, <<"$", "3">>, <<"0">>, <<"0", ".", "0", "0">>, <<"-", "0", ".", "0">>, <<>>, <<"-">>, <<"n", "/", "a">>}
CurrencyFields == {<<"U", "S", "D">>, <<"E", "U", "R">>, <<"X", "Y", "Z">>, <<>>}
DescFields == {<<"F", "A", "C", "E", "B", "O", "O", "K", " ", "A", "D", "S", " ", "P", "A", "Y", "M", "E", "N", "T">>, <<"U", "n", "k", "n", "o", "w", "n">>}
PayeeFields == {<<"R", "e", "v", "o", "l", "u", "t">>, <<"S", "h", "o", "p", "i", "f", "y">>}
RelayTypeFields == {<<"S", "p", "e", "n", "d">>, <<"R", "e", "c", "e", "i", "v", "e">>, <<"R", "e", "c", "e", "i", "v", "e", "-", "t", "r", "a", "n", "s", "f", "e", "r">>, <<"I", "n", "t", "e", "r", "e", "s", "t">>}
RevolutTypeFields == {<<"C", "A", "R", "D", "_", "P", "A", "Y", "M", "E", "N", "T">>, <<"F", "E", "E">>, <<"T", "O", "P", "U", "P">>, <<"R", "E", "F", "U", "N", "D">>, <<"C", "A", "R", "D", "_", "R", "E", "F", "U", "N", "D">>,
                      <<"E", "X", "C", "H", "A", "N", "G", "E">>, <<"T", "R", "A", "N", "S", "F", "E", "R">>, <<"A", "T", "M">>, <<"f", "e", "e">>, <<>>}
MEMBER_ACCOUNT == <<"1", "1", "1">>
BeneficiaryFields == {<<>>, RELAY_ACCOUNT, MEMBER_ACCOUNT, <<" ", "2", "2", "2", " ">>}

RelayValues(payee, txType, desc, amount, currency) ==
    <<<<"1", "1", "/", "0", "5", "/", "2", "0", "2", "5">>, payee, <<"1", "0", "0", "1">>, txType, desc, <<>>, <<"S", "e", "t", "t", "l", "e", "d">>, amount, currency, <<"1", "0", "0", ".", "0", "0">>>>
RevolutValues(type, desc, amount, currency, beneficiary) ==
    <<<<"2", "0", "2", "5", "-", "1", "1", "-", "0", "3">>, <<"2", "0", "2", "5", "-", "1", "1", "-", "0", "4">>, <<"a", "1">>, type, <<"C", "O", "M", "P", "L", "E", "T", "E", "D">>, desc, <<>>, amount, currency,
      <<>>, beneficiary, <<"A", "n", "a">>>>
MercuryValues(desc, amount, currency) == <<<<"1", "1", "-", "0", "5", "-", "2", "0", "2", "5">>, desc, amount, currency, desc>>
\* date fields: ISO-shaped, slashed day-first and month-first, year first, with a
\* time part, with a component that is no number, absent, and no date at all
DateFields == {<<"2", "0", "2", "5", "-", "1", "3", "-", "4", "5">>, <<"1", "3", "/", "1", "1", "/", "2", "0", "2", "5">>, <<"1", "3", "/", "1", "3", "/", "2", "0", "2", "5">>, <<"2", "0", "2", "5", "/", "1", "1", "/", "5">>,
               <<"1", "1", "/", "0", "5", "/", "2", "0", "2", "5", " ", "1", "0", ":", "3", "0">>, <<"5", "/", "x", "/", "2", "0", "2", "5">>, <<>>, <<"s", "o", "o", "n">>,
               <<"2", "0", "2", "5", "-", "1", "1", "-", "0", "5", "T", "1", "0", ":", "0", "0", ":", "0", "0", "Z">>}
DatedValues(date) == <<date, <<"P", "a", "y", "o", "u", "t">>, <<"4", "0">>, <<"U", "S", "D">>, <<"P", "a", "y", "o", "u", "t">>>>
PlainValues(desc, amount) == <<<<"N", "o", "v", " ", "5", " ", "2", "0", "2", "5">>, desc, amount>>

\* the rows a file with header h can carry as its first data row
RowsOf(h) ==
    IF h = RelayHeader
    THEN {RelayValues(p, t, d, a, c) :
              p \in PayeeFields, t \in RelayTypeFields, d \in DescFields,
              a \in AmountFields, c \in CurrencyFields}
         \cup {RelayValues(<<"R", "E", "L", "A", "Y">>, <<"R", "E", "C", "E", "I", "V", "E">>, <<"U", "n", "k", "n", "o", "w", "n">>, <<"4", "0">>, <<"U", "S", "D">>),
               RelayValues(<<"R", "e", "v", "o", "l", "u", "t", " ", "L", "t", "d">>, <<"R", "e", "c", "e", "i", "v", "e">>, <<"U", "n", "k", "n", "o", "w", "n">>, <<"4", "0">>, <<"U", "S", "D">>),
               RelayValues(<<"S", "h", "o", "p", "i", "f", "y">>, <<"W", "i", "r", "e", " ", "T", "r", "a", "n", "s", "f", "e", "r">>, <<"U", "n", "k", "n", "o", "w", "n">>, <<"4", "0">>, <<"U", "S", "D">>)}
    ELSE IF h = RevolutHeader
    THEN {RevolutValues(t, <<"U", "n", "k", "n", "o", "w", "n">>, a, c, <<>>) :
              t \in RevolutTypeFields, a \in AmountFields, c \in CurrencyFields}
         \cup {RevolutValues(<<"t", "r", "a", "n", "s", "f", "e", "r">>, <<"T", "o", " ", "A", "n", "a">>, a, c, b) :
                   a \in AmountFields, c \in CurrencyFields, b \in BeneficiaryFields}
         \cup {<<<<"2", "0", "2", "5", "-", "1", "1", "-", "0", "3">>, <<"2", "0", "2", "5", "-", "1", "1", "-", "0", "4">>, <<"a", "1">>, <<"T", "O", "P", "U", "P">>>>}
    ELSE IF h = MercuryHeader
    THEN {MercuryValues(d, a, c) : d \in DescFields, a \in AmountFields, c \in CurrencyFields}
         \cup {DatedValues(dt) : dt \in DateFields}
    ELSE IF h = RelayRevolutHeader
    THEN {RelayValues(<<"S", "h", "o", "p", "i", "f", "y">>, <<"S", "p", "e", "n", "d">>, <<"U", "n", "k", "n", "o", "w", "n">>, <<"-", "2", "1">>, <<"U", "S", "D">>) \o <<<<"T", "O", "P", "U", "P">>, <<"2", "0", "2", "5", "-", "1", "1", "-", "0", "3">>, <<"x">>>>,
          RelayValues(<<"S", "h", "o", "p", "i", "f", "y">>, <<"R", "e", "c", "e", "i", "v", "e">>, <<"U", "n", "k", "n", "o", "w", "n">>, <<"4", "0">>, <<"U", "S", "D">>)}
    ELSE IF h = RevolutMercuryHeader
    THEN {RevolutValues(<<"F", "E", "E">>, <<"U", "n", "k", "n", "o", "w", "n">>, <<"-", "2", "1">>, <<"U", "S", "D">>, <<>>) \o <<<<"x">>>>,
          RevolutValues(<<"T", "O", "P", "U", "P">>, <<"U", "n", "k", "n", "o", "w", "n">>, <<"4", "0">>, <<"U", "S", "D">>, <<>>)}
    ELSE {PlainValues(d, a) : d \in DescFields, a \in AmountFields} \cup {<<<<"x">>>>}

\* the rows that can follow the first
MoreRowsOf(h) ==
    IF h \in {RelayHeader, RelayRevolutHeader} THEN {RelayValues(<<"S", "h", "o", "p", "i", "f", "y">>, <<"R", "e", "c", "e", "i", "v", "e">>, <<"P", "a", "y", "o", "u", "t">>, <<"4", "0">>, <<"E", "U", "R">>)}
    ELSE IF h \in {RevolutHeader, RevolutMercuryHeader} THEN {RevolutValues(<<"T", "O", "P", "U", "P">>, <<"P", "a", "y", "o", "u", "t">>, <<"4", "0">>, <<"E", "U", "R">>, <<>>)}
    ELSE IF h = MercuryHeader THEN {MercuryValues(<<"P", "a", "y", "o", "u", "t">>, <<"4", "0">>, <<"E", "U", "R">>)}
    ELSE {PlainValues(<<"P", "a", "y", "o", "u", "t">>, <<"4", "0">>)}

\* the largest number of data rows of a file
MaxRows == 2

RECURSIVE RowSeqs(_, _)
RowSeqs(rows, k) ==
    IF k = 0 THEN {<<>>}
    ELSE RowSeqs(rows, k - 1) \cup {Append(s, r) : s \in RowSeqs(rows, k - 1), r \in rows}

\* the tokenized non-blank lines of the files with header h
FilesOf(h) ==
    {<<>>, <<h>>}
    \cup {<<h, r>> \o more : r \in RowsOf(h), more \in RowSeqs(MoreRowsOf(h), MaxRows - 1)}

NoTeam == <<>>
TeamLists == {NoTeam, <<[name |-> <<"A", "n", "a">>, beneficiaryAccount |-> MEMBER_ACCOUNT]>>,
              <<[name |-> <<"B", "o">>, beneficiaryAccount |-> <<>>]>>,
              <<[name |-> <<"C", "y">>, beneficiaryAccount |-> RELAY_ACCOUNT],
                [name |-> <<"D", "i">>, beneficiaryAccount |-> <<"2", "2", "2">>]>>}
\* the team matters to a row that names a beneficiary
NamesBeneficiary(lines) ==
    /\ Len(lines) > 1
    /\ lines[1] = RevolutHeader
    /\ Len(lines[2]) >= 11
    /\ lines[2][11] # <<>>
ParseTables == {FallbackRates, ApiRatesB, NotAMap}

ParseIdle ==
    /\ csvFile = <<>>
    /\ csvTeam = <<>>
    /\ csvRates = NotAMap
    /\ parsed = <<>>
    /\ parseDone = TRUE

ParseInit ==
    /\ \E h \in Headers : csvFile \in FilesOf(h)
    /\ csvTeam \in (IF NamesBeneficiary(csvFile) THEN TeamLists ELSE {NoTeam})
    /\ csvRates \in ParseTables
    /\ parsed = <<>>
    /\ parseDone = FALSE

\* parseCSVLocally(csvContent, file.name, teamMembers, exchangeRates)
ParseCSVLocally ==
    /\ ~parseDone
    /\ parsed' = parseCSVLocally(csvFile, csvTeam, csvRates, 0)
    /\ parseDone' = TRUE
    /\ UNCHANGED <<csvFile, csvTeam, csvRates, parsedFiles, ratesVars, convVars, appVars>>

---------------------------------------------------------------------------
(* The page: periods, categories, the store and loadData *)

currentMonthIndex == 11
currentYear == 2025
monthNamesShort == <<<<"J", "a", "n">>, <<"F", "e", "b">>, <<"M", "a", "r">>, <<"A", "p", "r">>, <<"M", "a", "y">>, <<"J", "u", "n">>,
                     <<"J", "u", "l">>, <<"A", "u", "g">>, <<"S", "e", "p">>, <<"O", "c", "t">>, <<"N", "o", "v">>, <<"D", "e", "c">>>>
\* `${monthNamesShort[month]} ${year}` for a 0-based month
PeriodLabel(month, year) == monthNamesShort[month + 1] \o <<" ">> \o IntToText(year)

Products == <<"P", "r", "o", "d", "u", "c", "t", "s">>
Taxes == <<"T", "a", "x", "e", "s">>
Travel == <<"T", "r", "a", "v", "e", "l">>
defaultCategories ==
    {[id |-> <<"d", "e", "f", "a", "u", "l", "t", "-", "a", "d", "s">>, name |-> Ads], [id |-> <<"d", "e", "f", "a", "u", "l", "t", "-", "s", "o", "f", "t", "w", "a", "r", "e">>, name |-> Software],
     [id |-> <<"d", "e", "f", "a", "u", "l", "t", "-", "p", "a", "y", "r", "o", "l", "l">>, name |-> Payroll], [id |-> <<"d", "e", "f", "a", "u", "l", "t", "-", "f", "e", "e", "s">>, name |-> Fees],
     [id |-> <<"d", "e", "f", "a", "u", "l", "t", "-", "s", "h", "i", "p", "p", "i", "n", "g">>, name |-> Shipping],
     [id |-> <<"d", "e", "f", "a", "u", "l", "t", "-", "p", "r", "o", "d", "u", "c", "t", "s">>, name |-> Products],
     [id |-> <<"d", "e", "f", "a", "u", "l", "t", "-", "t", "a", "x", "e", "s">>, name |-> Taxes],
     [id |-> <<"d", "e", "f", "a", "u", "l", "t", "-", "o", "p", "e", "r", "a", "t", "i", "o", "n", "s">>, name |-> Operations],
     [id |-> <<"d", "e", "f", "a", "u", "l", "t", "-", "r", "e", "f", "u", "n", "d", "s">>, name |-> Refunds], [id |-> <<"d", "e", "f", "a", "u", "l", "t", "-", "o", "t", "h", "e", "r">>, name |-> Other]}
\* [...defaultCategories, ...customCategories].filter(c => !hiddenCategories.includes(c.name))
allCategories(custom, hidden) == {c \in defaultCategories \cup custom : c.name \notin hidden}

\* crypto.randomUUID() for a categorization rule or a category: an id not in use
UuidText(n) == <<"u", "u", "i", "d", "-">> \o IntToText(n)
NewId(used) == UuidText(CHOOSE n \in 1..(Cardinality(used) + 1) :
                            /\ UuidText(n) \notin used
                            /\ \A m \in 1..(n - 1) : UuidText(m) \in used)

\* page.tsx:3072-3092: the row saveTransactions writes for a transaction
ToRow(tx, period) == [tx EXCEPT !.period = OrText(tx.period, period)]
\* page.tsx:2978-2998: the transaction loadData makes of a row
FromRow(row) == [row EXCEPT !.category = OrText(row.category, Other),
                            !.currency = OrText(row.currency, USD)]

RECURSIVE Perms(_)
Perms(S) == IF S = {} THEN {<<>>}
            ELSE UNION {{<<x>> \o q : q \in Perms(S \ {x})} : x \in S}
\* .order('priority', { ascending: false }): rows of equal priority in any order
PriorityOrders(rules) ==
    {q \in Perms(rules) : \A i, j \in 1..Len(q) : i < j => q[i].priority >= q[j].priority}

\* the requests of one loadData that fail, out of f that still may
LoadFaults(f) ==
    {e \in [tx : BOOLEAN, rules : BOOLEAN, cats : BOOLEAN] :
        (IF e.tx THEN 1 ELSE 0) + (IF e.rules THEN 1 ELSE 0) + (IF e.cats THEN 1 ELSE 0) <= f}
FaultCount(e) == (IF e.tx THEN 1 ELSE 0) + (IF e.rules THEN 1 ELSE 0) + (IF e.cats THEN 1 ELSE 0)

(***************************************************************************)
(* loadData (page.tsx:2945-3065) on page state (memT, memR, memC) and the  *)
(* tables (dbT, dbR, dbC): the page states it can leave.  The tables here  *)
(* hold fewer rows than a page of 500, so the transactions come in one     *)
(* request; setTransactions is not called when it fails or returns no row. *)
(***************************************************************************)
loadData(memT, memR, memC, dbT, dbR, dbC, f) ==
    {[transactions |-> IF e.tx \/ dbT = {} THEN memT ELSE {FromRow(r) : r \in dbT},
      categorizationRules |-> IF e.rules THEN memR ELSE q,
      customCategories |-> IF e.cats THEN memC ELSE dbC,
      faults |-> f - FaultCount(e)] : e \in LoadFaults(f), q \in PriorityOrders(dbR)}

\* page.tsx:3189-3202
filteredTransactions(txs, months, year) ==
    {tx \in txs :
        IF tx.period = <<>> THEN TRUE
        ELSE IF months = {} THEN includes(tx.period, IntToText(year))
        ELSE \E monthIdx \in months : tx.period = PeriodLabel(monthIdx, year)}

\* page.tsx:3205-3212: one step of the reduce
AggregateStepMutCountInternal(acc, t) ==
    IF t.type = "income" THEN [acc EXCEPT !.income = NumAdd(@, t.amount)]
    ELSE [acc EXCEPT !.expenses = NumAdd(@, NumAbs(t.amount))]
AggregateStep(acc, t) ==
    IF t.type = "income" THEN [acc EXCEPT !.income = NumAdd(@, t.amount)]
    ELSE IF t.type = "expense" THEN [acc EXCEPT !.expenses = NumAdd(@, NumAbs(t.amount))]
    ELSE acc
RECURSIVE AggregateFrom(_, _)
AggregateFrom(txs, acc) ==
    IF txs = {} THEN acc
    ELSE LET t == CHOOSE t \in txs : TRUE
         IN  AggregateFrom(txs \ {t}, AggregateStep(acc, t))
\* page.tsx:3205-3213
aggregatedData(txs) ==
    LET acc == AggregateFrom(txs, [income |-> Zero, expenses |-> Zero, profit |-> Zero])
    IN  [acc EXCEPT !.profit = NumSub(acc.income, acc.expenses)]

\* .update({ category }).eq('id', id)
UpdateCategoryByIdMutRetype(db, id, category) ==
    {IF r.id = id THEN [r EXCEPT !.category = category, !.type = "income"] ELSE r : r \in db}
UpdateCategoryById(db, id, category) ==
    {IF r.id = id THEN [r EXCEPT !.category = category] ELSE r : r \in db}
\* .update({ category: newCategory }).eq('category', categoryName)
UpdateCategoryByName(db, categoryName, newCategory) ==
    {IF r.category = categoryName THEN [r EXCEPT !.category = newCategory] ELSE r : r \in db}

---------------------------------------------------------------------------
(* Categorization rules and the handlers that rewrite categories *)

\* `${tx.description} ${tx.payee || ''}`.toLowerCase()
searchText(tx) == toLowerCase(tx.description \o <<" ">> \o tx.payee)
\* page.tsx:3349-3356: the test of one rule
RuleMatches(rule, tx) ==
    IF rule.match_type = "exact" THEN searchText(tx) = rule.keyword
    ELSE IF rule.match_type = "starts_with" THEN startsWith(searchText(tx), rule.keyword)
    ELSE includes(searchText(tx), rule.keyword)
\* categorizationRules.find(...): the position of the first rule that matches, or 0
matchingRuleMutLast(rules, tx) ==
    IF \E i \in 1..Len(rules) : RuleMatches(rules[i], tx)
    THEN CHOOSE i \in 1..Len(rules) :
             RuleMatches(rules[i], tx) /\ \A j \in (i + 1)..Len(rules) : ~RuleMatches(rules[j], tx)
    ELSE 0
matchingRule(rules, tx) ==
    IF \E i \in 1..Len(rules) : RuleMatches(rules[i], tx)
    THEN SetMin({i \in 1..Len(rules) : RuleMatches(rules[i], tx)}) ELSE 0
\* page.tsx:3347-3359
txsToUpdateMutAnyMatch(txs, rules) == {tx \in txs : matchingRule(rules, tx) # 0}
txsToUpdate(txs, rules) ==
    {tx \in txs : /\ matchingRule(rules, tx) # 0
                  /\ tx.category # rules[matchingRule(rules, tx)].category}

\* page.tsx:3362-3382: the updates of the transactions in todo whose request succeeds
RECURSIVE ApplyWrites(_, _, _)
ApplyWrites(db, todo, rules) ==
    IF todo = {} THEN db
    ELSE LET tx == CHOOSE tx \in todo : TRUE
         IN  ApplyWrites(UpdateCategoryById(db, tx.id, rules[matchingRule(rules, tx)].category),
                         todo \ {tx}, rules)

\* page.tsx:3402-3407
RECURSIVE BulkWrites(_, _, _)
BulkWrites(db, ids, category) ==
    IF ids = {} THEN db
    ELSE LET txId == CHOOSE txId \in ids : TRUE
         IN  BulkWrites(UpdateCategoryById(db, txId, category), ids \ {txId}, category)

\* page.tsx:3287-3293 and 3411-3417
NewRule(id, keyword, category, matchType, rules) ==
    [id |-> id, keyword |-> trim(toLowerCase(keyword)), category |-> category,
     match_type |-> matchType, priority |-> Len(rules) + 1]

NoApply == [runs |-> 0, count |-> 0, failed |-> 0, clean |-> TRUE]
NoSave == [called |-> FALSE, ok |-> FALSE, clean |-> FALSE, period |-> <<>>, bank |-> ""]
NoConfirm == [set |-> FALSE, period |-> <<>>, stamps |-> {}, done |-> FALSE,
              storedPeriods |-> {}]

\* the page state a handler leaves when it ends in loadData
Loaded(res) ==
    /\ transactions' = res.transactions
    /\ categorizationRules' = res.categorizationRules
    /\ customCategories' = res.customCategories
    /\ faults' = res.faults

\* what no handler of the page touches
PageFrame ==
    UNCHANGED <<ratesVars, parseVars, convVars, modalVars, mounted, showUploadModal,
                pendingDeletions, lastSave, lastConfirm>>

MaxRules == 2
MaxSelected == 2
MaxCustom == 1
MaxFaults == 1

\* the ids of the rules in the table or on the page
RuleIds == {r.id : r \in dbRules} \cup {categorizationRules[i].id : i \in 1..Len(categorizationRules)}
CategoryIds == {c.id : c \in dbCategories \cup customCategories}

\* the rules a user writes
RuleInputs ==
    {[keyword |-> <<"F", "a", "c", "e", "b", "o", "o", "k">>, category |-> Software, matchType |-> "starts_with"],
     [keyword |-> <<" ", "a", "d", "s", " ">>, category |-> Operations, matchType |-> "contains"],
     [keyword |-> <<"w", "i", "d", "g", "e", "t", " ", "a", "c", "m", "e">>, category |-> Software, matchType |-> "exact"]}

\* the mount effect: loadData() on the initial state of the page
Mount ==
    /\ ~mounted
    /\ mounted' = TRUE
    /\ \E res \in loadData({}, <<>>, {}, dbTx, dbRules, dbCategories, faults) : Loaded(res)
    /\ applyHist' = NoApply
    /\ UNCHANGED <<ratesVars, parseVars, convVars, modalVars, storeVars, hiddenCategories,
                   pendingDeletions, showUploadModal, lastSave, lastConfirm>>

handleCreateRule ==
    /\ mounted
    /\ Len(categorizationRules) < MaxRules
    /\ \E in \in RuleInputs, fails \in {f \in BOOLEAN : f => faults > 0} :
          LET newRule == NewRule(NewId(RuleIds), in.keyword, in.category, in.matchType,
                                 categorizationRules)
          IN  /\ TRUE
              /\ IF fails
                 THEN /\ faults' = faults - 1
                      /\ UNCHANGED <<dbRules, categorizationRules>>
                 ELSE /\ dbRules' = dbRules \cup {newRule}
                      /\ categorizationRules' = Append(categorizationRules, newRule)
                      /\ UNCHANGED faults
    /\ applyHist' = NoApply
    /\ PageFrame
    /\ UNCHANGED <<dbTx, dbCategories, transactions, customCategories, hiddenCategories>>

handleDeleteRule ==
    /\ mounted
    /\ \E i \in 1..Len(categorizationRules), fails \in {f \in BOOLEAN : f => faults > 0} :
          LET ruleId == categorizationRules[i].id
          IN  IF fails
              THEN /\ faults' = faults - 1
                   /\ UNCHANGED <<dbRules, categorizationRules>>
              ELSE /\ dbRules' = {r \in dbRules : r.id # ruleId}
                   /\ categorizationRules' =
                          SelectSeq(categorizationRules, LAMBDA r : r.id # ruleId)
                   /\ UNCHANGED faults
    /\ applyHist' = NoApply
    /\ PageFrame
    /\ UNCHANGED <<dbTx, dbCategories, transactions, customCategories, hiddenCategories>>

\* page.tsx:3339-3395
handleApplyRulesToExisting ==
    /\ mounted
    /\ IF categorizationRules = <<>>
       THEN /\ applyHist' = [runs |-> IF applyHist.runs = 0 THEN 1 ELSE 2, count |-> 0,
                             failed |-> 0, clean |-> applyHist.clean]
            /\ UNCHANGED <<dbTx, transactions, categorizationRules, customCategories, faults>>
       ELSE \E todo \in {txsToUpdate(transactions, categorizationRules)} :
                \E failed \in {s \in SUBSET todo : Cardinality(s) <= faults} :
                \E db \in {ApplyWrites(dbTx, todo \ failed, categorizationRules)} :
                  LET updatedCount == Cardinality(todo \ failed)
                      left == faults - Cardinality(failed)
                  IN  /\ dbTx' = db
                      /\ IF updatedCount > 0
                         THEN \E res \in loadData(transactions, categorizationRules,
                                                  customCategories, db, dbRules,
                                                  dbCategories, left) :
                                /\ Loaded(res)
                                /\ applyHist' =
                                     [runs |-> IF applyHist.runs = 0 THEN 1 ELSE 2,
                                      count |-> updatedCount,
                                      failed |-> Cardinality(failed),
                                      clean |-> applyHist.clean /\ res.faults = faults]
                         ELSE /\ faults' = left
                              /\ applyHist' =
                                     [runs |-> IF applyHist.runs = 0 THEN 1 ELSE 2,
                                      count |-> updatedCount,
                                      failed |-> Cardinality(failed),
                                      clean |-> applyHist.clean /\ failed = {}]
                              /\ UNCHANGED <<transactions, categorizationRules,
                                             customCategories>>
    /\ PageFrame
    /\ UNCHANGED <<dbRules, dbCategories, hiddenCategories>>

(***************************************************************************)
(* handleQuickRule (page.tsx:834-842) of the overview tab: onCreateRule    *)
(* and then, if it succeeded, onApplyRules.  Both are the props of the     *)
(* render the handler was created in, so the pass runs                     *)
(* handleApplyRulesToExisting of that render, whose categorizationRules    *)
(* and transactions are the ones from before the rule was created.         *)
(***************************************************************************)
handleQuickRule ==
    /\ mounted
    /\ Len(categorizationRules) < MaxRules
    /\ \E in \in RuleInputs, fails \in {f \in BOOLEAN : f => faults > 0} :
          LET newRule == NewRule(NewId(RuleIds), in.keyword, in.category, "contains",
                                 categorizationRules)
              created == Append(categorizationRules, newRule)
          IN  IF fails
              THEN /\ faults' = faults - 1
                   /\ applyHist' = NoApply
                   /\ UNCHANGED <<dbTx, dbRules, transactions, categorizationRules,
                                  customCategories>>
              ELSE /\ dbRules' = dbRules \cup {newRule}
                   /\ IF categorizationRules = <<>>
                      THEN /\ categorizationRules' = created
                           /\ applyHist' = [runs |-> 1, count |-> 0, failed |-> 0,
                                            clean |-> TRUE]
                           /\ UNCHANGED <<dbTx, transactions, customCategories, faults>>
                      ELSE \E todo \in {txsToUpdate(transactions, categorizationRules)} :
                           \E failed \in {s \in SUBSET todo : Cardinality(s) <= faults} :
                           \E db \in {ApplyWrites(dbTx, todo \ failed, categorizationRules)} :
                             LET updatedCount == Cardinality(todo \ failed)
                                 left == faults - Cardinality(failed)
                             IN  /\ dbTx' = db
                                 /\ applyHist' = [runs |-> 1, count |-> updatedCount,
                                                  failed |-> Cardinality(failed),
                                                  clean |-> failed = {}]
                                 /\ IF updatedCount > 0
                                    THEN \E res \in loadData(transactions, created,
                                                             customCategories, db,
                                                             dbRules \cup {newRule},
                                                             dbCategories, left) :
                                           Loaded(res)
                                    ELSE /\ faults' = left
                                         /\ categorizationRules' = created
                                         /\ UNCHANGED <<transactions, customCategories>>
    /\ PageFrame
    /\ UNCHANGED <<dbCategories, hiddenCategories>>

\* the categories a bulk update assigns, and the names a user gives a new category
BulkCategories == {Ads}
CategoryNameInputs == {<<"T", "r", "a", "v", "e", "l", " ">>, <<"a", "d", "s">>,
                       <<"o", "t", "h", "e", "r", " ">>}
\* the category cards a user acts on, and the migration targets
CardNames == {Ads, Travel, Other, Payroll}
MigrationTargets == {Software}

\* page.tsx:878: the bulk bar is offered in the popup of the category Other
Selectable(txs) == {tx \in txs : tx.category = Other}

\* page.tsx:3398-3435, called as page.tsx:554-570 calls it: the rule keyword is
\* the description of a selected transaction
handleBulkUpdateCategory ==
    /\ mounted
    /\ \E transactionIds \in {s \in SUBSET {tx.id : tx \in Selectable(transactions)} :
                                 s # {} /\ Cardinality(s) <= MaxSelected},
          category \in BulkCategories :
       \E keyword \in {trim(toLowerCase(tx.description)) :
                          tx \in {t \in transactions : t.id \in transactionIds}},
          failed \in {s \in SUBSET transactionIds : Cardinality(s) <= faults} :
       \E insertFails \in {f \in BOOLEAN : f => (keyword # <<>> /\ Cardinality(failed) < faults)} :
          LET db == BulkWrites(dbTx, transactionIds \ failed, category)
              newRule == NewRule(NewId(RuleIds), keyword, category, "contains",
                                 categorizationRules)
              rules == IF keyword # <<>> THEN Append(categorizationRules, newRule)
                       ELSE categorizationRules
              stored == IF keyword # <<>> /\ ~insertFails THEN dbRules \cup {newRule}
                        ELSE dbRules
              left == faults - Cardinality(failed) - (IF insertFails THEN 1 ELSE 0)
          IN  /\ keyword # <<>> => Len(categorizationRules) < MaxRules
              /\ dbTx' = db
              /\ dbRules' = stored
              /\ \E res \in loadData(transactions, rules, customCategories, db, stored,
                                     dbCategories, left) : Loaded(res)
    /\ applyHist' = NoApply
    /\ PageFrame
    /\ UNCHANGED <<dbCategories, hiddenCategories>>

\* page.tsx:3440-3463
handleCreateCategory ==
    /\ mounted
    /\ Cardinality(customCategories) < MaxCustom
    /\ \E name \in CategoryNameInputs, fails \in {f \in BOOLEAN : f => faults > 0} :
          LET newCategory == [id |-> NewId(CategoryIds), name |-> trim(name)]
              exists == \E c \in allCategories(customCategories, hiddenCategories) :
                            toLowerCase(c.name) = toLowerCase(name)
          IN  IF exists
              THEN UNCHANGED <<dbCategories, customCategories, faults>>
              ELSE /\ TRUE
                   /\ IF fails
                      THEN /\ faults' = faults - 1
                           /\ UNCHANGED <<dbCategories, customCategories>>
                      ELSE /\ dbCategories' = dbCategories \cup {newCategory}
                           /\ customCategories' = customCategories \cup {newCategory}
                           /\ UNCHANGED faults
    /\ applyHist' = NoApply
    /\ PageFrame
    /\ UNCHANGED <<dbTx, dbRules, transactions, categorizationRules, hiddenCategories>>

\* page.tsx:3465-3485: [deleted, hidden, custom, stored] after
\* handleDeleteCategory(cat.id, cat.name), whose request fails or not
DeleteCategory(cat, fails, hidden, custom, stored) ==
    IF startsWith(cat.id, <<"d", "e", "f", "a", "u", "l", "t", "-">>)
    THEN [deleted |-> TRUE, hidden |-> hidden \cup {cat.name}, custom |-> custom,
          stored |-> stored, failed |-> FALSE]
    ELSE IF fails
    THEN [deleted |-> FALSE, hidden |-> hidden, custom |-> custom, stored |-> stored,
          failed |-> TRUE]
    ELSE [deleted |-> TRUE, hidden |-> hidden, custom |-> {c \in custom : c.id # cat.id},
          stored |-> {c \in stored : c.id # cat.id}, failed |-> FALSE]

\* page.tsx:2352
isProtectedMutOtherOnly(name) == name = Other
isProtected(name) == name = Other \/ name = Payroll

\* page.tsx:2351
txCount(name) == Cardinality({tx \in transactions : tx.category = name})

\* what the handlers of the page leave alone when the tab changes its own state
TabFrame ==
    UNCHANGED <<ratesVars, parseVars, convVars, modalVars, mounted, showUploadModal,
                lastSave, lastConfirm>>

\* page.tsx:2380-2393: the trash button of a card that holds no transaction
MarkForDeletion ==
    /\ mounted
    /\ \E cat \in {c \in allCategories(customCategories, hiddenCategories) :
                      c.name \in CardNames} :
          /\ ~isProtected(cat.name)
          /\ cat.name \notin pendingDeletions
          /\ txCount(cat.name) = 0
          /\ pendingDeletions' = pendingDeletions \cup {cat.name}
    /\ applyHist' = NoApply
    /\ TabFrame
    /\ UNCHANGED <<storeVars, transactions, categorizationRules, customCategories,
                   hiddenCategories, faults>>

\* page.tsx:2371-2379: the Undo button of a card marked for deletion
UndoDeletion ==
    /\ mounted
    /\ \E cat \in {c \in allCategories(customCategories, hiddenCategories) :
                      c.name \in CardNames} :
          /\ ~isProtected(cat.name)
          /\ cat.name \in pendingDeletions
          /\ pendingDeletions' = pendingDeletions \ {cat.name}
    /\ applyHist' = NoApply
    /\ TabFrame
    /\ UNCHANGED <<storeVars, transactions, categorizationRules, customCategories,
                   hiddenCategories, faults>>

\* page.tsx:2322-2328: the Cancel button next to the pending deletions
CancelDeletions ==
    /\ mounted
    /\ pendingDeletions # {}
    /\ pendingDeletions' = {}
    /\ applyHist' = NoApply
    /\ TabFrame
    /\ UNCHANGED <<storeVars, transactions, categorizationRules, customCategories,
                   hiddenCategories, faults>>

\* page.tsx:2306-2311: onDeleteCategory for every pending name that categories
\* still holds; failing is the ids whose delete request fails
RECURSIVE DeleteAll(_, _, _, _, _, _)
DeleteAll(names, categories, failing, hidden, custom, stored) ==
    IF names = {}
    THEN [hidden |-> hidden, custom |-> custom, stored |-> stored, failures |-> 0]
    ELSE LET catName == CHOOSE n \in names : TRUE
             found == {c \in categories : c.name = catName}
         IN  IF found = {}
             THEN DeleteAll(names \ {catName}, categories, failing, hidden, custom, stored)
             ELSE LET cat == CHOOSE c \in found : TRUE
                      out == DeleteCategory(cat, cat.id \in failing, hidden, custom, stored)
                      rest == DeleteAll(names \ {catName}, categories, failing,
                                        out.hidden, out.custom, out.stored)
                  IN  [rest EXCEPT !.failures = @ + (IF out.failed THEN 1 ELSE 0)]

\* page.tsx:2304-2314: the button that commits the pending deletions
CommitDeletions ==
    /\ mounted
    /\ pendingDeletions # {}
    /\ \E failing \in SUBSET {c.id : c \in {d \in customCategories :
                                                d.name \in pendingDeletions}} :
          /\ Cardinality(failing) <= faults
          /\ LET out == DeleteAll(pendingDeletions,
                                  allCategories(customCategories, hiddenCategories),
                                  failing, hiddenCategories, customCategories, dbCategories)
             IN  /\ hiddenCategories' = out.hidden
                 /\ customCategories' = out.custom
                 /\ dbCategories' = out.stored
                 /\ faults' = faults - out.failures
    /\ pendingDeletions' = {}
    /\ applyHist' = NoApply
    /\ TabFrame
    /\ UNCHANGED <<dbTx, dbRules, transactions, categorizationRules>>

\* page.tsx:3488-3517
handleMigrateAndDeleteCategory ==
    /\ mounted
    /\ \E cat \in {c \in allCategories(customCategories, hiddenCategories) :
                      c.name \in CardNames},
          newCategory \in MigrationTargets,
          updateFails \in {f \in BOOLEAN : f => faults > 0},
          fails \in {f \in BOOLEAN : f => faults > 0} :
          /\ ~isProtected(cat.name)
          /\ cat.name \notin pendingDeletions
          /\ txCount(cat.name) > 0
          /\ newCategory # cat.name
          /\ newCategory \in {c.name : c \in allCategories(customCategories, hiddenCategories)}
          /\ IF updateFails
             THEN /\ faults' = faults - 1
                  /\ UNCHANGED <<dbTx, dbCategories, transactions, categorizationRules,
                                 customCategories, hiddenCategories>>
             ELSE LET db == UpdateCategoryByName(dbTx, cat.name, newCategory)
                      out == DeleteCategory(cat, fails, hiddenCategories, customCategories,
                                            dbCategories)
                  IN  /\ dbTx' = db
                      /\ dbCategories' = out.stored
                      /\ hiddenCategories' = out.hidden
                      /\ IF out.deleted
                         THEN \E res \in loadData(transactions, categorizationRules,
                                                  out.custom, db, dbRules, out.stored,
                                                  faults) : Loaded(res)
                         ELSE /\ faults' = faults - 1
                              /\ UNCHANGED <<transactions, categorizationRules,
                                             customCategories>>
    /\ applyHist' = NoApply
    /\ PageFrame
    /\ UNCHANGED dbRules

\* the periods the Manage Data modal lists
ListedPeriods == {tx.period : tx \in dbTx \cup transactions}

\* page.tsx:3151-3174
deleteByPeriod ==
    /\ mounted
    /\ \E period \in ListedPeriods,
          txError \in {f \in BOOLEAN : f => faults > 0},
          stmtError \in {f \in BOOLEAN : f => faults > 0} :
          IF txError
          THEN /\ faults' = faults - 1
               /\ UNCHANGED <<dbTx, transactions, categorizationRules, customCategories>>
          ELSE \E db \in {{r \in dbTx : r.period # period}} :
                 /\ dbTx' = db
                 /\ IF stmtError
                    THEN /\ faults' = faults - 1
                         /\ UNCHANGED <<transactions, categorizationRules, customCategories>>
                    ELSE \E res \in loadData(transactions, categorizationRules,
                                             customCategories, db, dbRules, dbCategories,
                                             faults) : Loaded(res)
    /\ applyHist' = NoApply
    /\ PageFrame
    /\ UNCHANGED <<dbRules, dbCategories, hiddenCategories>>

\* page.tsx:3176-3186: the error of the delete request is not read
deleteAllData ==
    /\ mounted
    /\ \E txError \in {f \in BOOLEAN : f => faults > 0} :
       \E db \in {IF txError THEN dbTx ELSE {}} :
          /\ dbTx' = db
          /\ \E res \in loadData(transactions, categorizationRules, customCategories,
                                  db, dbRules, dbCategories,
                                  IF txError THEN faults - 1 ELSE faults) : Loaded(res)
    /\ applyHist' = NoApply
    /\ PageFrame
    /\ UNCHANGED <<dbRules, dbCategories, hiddenCategories>>

---------------------------------------------------------------------------
(* The upload modal: files, processFiles, confirmImport, onUploadComplete *)

\* the files a user has at hand: [name, lines], lines as parseCSVLine tokenizes them
RelayNov ==
    [name |-> <<"R", "e", "l", "a", "y", "_", "2", "0", "2", "5", "-", "1", "1", "-", "0", "1", ".", "c", "s", "v">>,
     lines |-> <<RelayHeader,
                 RelayValues(<<"F", "a", "c", "e", "b", "o", "o", "k">>, <<"S", "p", "e", "n", "d">>, <<"F", "A", "C", "E", "B", "O", "O", "K", " ", "A", "D", "S", " ", "P", "A", "Y", "M", "E", "N", "T">>, <<"-", "1", "5", "6", ".", "0", "3">>, <<"U", "S", "D">>),
                 RelayValues(<<"R", "e", "v", "o", "l", "u", "t">>, <<"R", "e", "c", "e", "i", "v", "e">>, <<"U", "n", "k", "n", "o", "w", "n">>, <<"5", "0", "0">>, <<"U", "S", "D">>),
                 RelayValues(<<"A", "c", "m", "e">>, <<"S", "p", "e", "n", "d">>, <<"W", "i", "d", "g", "e", "t">>, <<"-", "2", "0">>, <<"E", "U", "R">>)>>]
RevolutCsv ==
    [name |-> <<"r", "e", "v", "o", "l", "u", "t", ".", "c", "s", "v">>,
     lines |-> <<RevolutHeader,
                 RevolutValues(<<"T", "O", "P", "U", "P">>, <<"P", "a", "y", "o", "u", "t">>, <<"4", "0">>, <<"E", "U", "R">>, <<>>),
                 RevolutValues(<<"E", "X", "C", "H", "A", "N", "G", "E">>, <<"E", "x", "c", "h", "a", "n", "g", "e", "d", " ", "t", "o", " ", "U", "S", "D">>, <<"-", "7", "5">>, <<"U", "S", "D">>, <<>>)>>]
NotesCsv == [name |-> <<"n", "o", "t", "e", "s", ".", "c", "s", "v">>, lines |-> <<PlainHeader>>]
ScanPdf == [name |-> <<"s", "c", "a", "n", ".", "p", "d", "f">>, lines |-> <<>>]
UserFiles == {RelayNov, RevolutCsv, NotesCsv, ScanPdf}
FileNamed(name) == CHOOSE f \in UserFiles : f.name = name
\* what one file selection carries (page.tsx:4246: the input accepts .csv), and
\* what one drop carries
FileSelections == {<<NotesCsv.name>>, <<RelayNov.name, RevolutCsv.name>>}
FileDrops == FileSelections \cup {<<ScanPdf.name>>}
MaxFiles == 2
\* the team the page holds while the modal is open
teamMembers == <<[name |-> <<"A", "n", "a">>, beneficiaryAccount |-> MEMBER_ACCOUNT]>>

endsWith(s, p) == Len(p) <= Len(s) /\ MatchAt(s, p, Len(s) - Len(p) + 1)
\* name.match(/(\d{4})-(\d{2})-\d{2}/) at the 1-based position i
DateAt(name, i) ==
    /\ i + 9 <= Len(name)
    /\ \A k \in {0, 1, 2, 3, 5, 6, 8, 9} : IsDigit(name[i + k])
    /\ name[i + 4] = "-"
    /\ name[i + 7] = "-"
\* page.tsx:4070-4077: the month and year a file name sets, if it carries a date
FileNameDate(name, month, year) ==
    IF \E i \in 1..Len(name) : DateAt(name, i)
    THEN LET i == SetMin({k \in 1..Len(name) : DateAt(name, k)})
         IN  [month |-> DigitsVal(SubSeq(name, i + 5, i + 6)) - 1,
              year |-> DigitsVal(SubSeq(name, i, i + 3))]
    ELSE [month |-> month, year |-> year]

RECURSIVE SumAmounts(_, _)
SumAmounts(txs, type) ==
    IF txs = <<>> THEN Zero
    ELSE IF Head(txs).type # type THEN SumAmounts(Tail(txs), type)
    ELSE NumAdd(SumAmounts(Tail(txs), type),
                IF type = "expense" THEN NumAbs(Head(txs).amount) ELSE Head(txs).amount)
CountOfType(txs, type) == Cardinality({k \in 1..Len(txs) : txs[k].type = type})
\* page.tsx:4140-4157
SummaryMutInternalAsIncome(txs) ==
    [total |-> Len(txs),
     income |-> NumAdd(SumAmounts(txs, "income"), SumAmounts(txs, "internal")),
     expenses |-> SumAmounts(txs, "expense"),
     incomeCount |-> CountOfType(txs, "income"),
     expenseCount |-> CountOfType(txs, "expense"),
     internalCount |-> CountOfType(txs, "internal"),
     categories |-> {txs[k].category : k \in 1..Len(txs)} \ {<<>>}]
Summary(txs) ==
    [total |-> Len(txs),
     income |-> SumAmounts(txs, "income"),
     expenses |-> SumAmounts(txs, "expense"),
     incomeCount |-> CountOfType(txs, "income"),
     expenseCount |-> CountOfType(txs, "expense"),
     internalCount |-> CountOfType(txs, "internal"),
     categories |-> {txs[k].category : k \in 1..Len(txs)} \ {<<>>}]

NoAnalysis == [set |-> FALSE, transactions |-> <<>>, summary |-> Summary(<<>>)]
ModalInit == [files |-> <<>>, processing |-> FALSE, importing |-> FALSE, error |-> <<>>,
              analysisResult |-> NoAnalysis, selectedMonth |-> currentMonthIndex,
              selectedYear |-> currentYear]
NoInflight == [active |-> FALSE, files |-> <<>>, period |-> <<>>]
NoPending == [set |-> FALSE, transactions |-> <<>>, period |-> <<>>, files |-> <<>>]

\* the tables getExchangeRates can return to processFiles
ReturnedTables == {FallbackRates} \cup {r.rates : r \in {x \in ApiResponses : x.rates.isMap}}
\* page.tsx:4123-4124: file.text() and parseCSVLocally on each file a user has,
\* with ids counted from the first line of the file
FileTransactions ==
    [name \in {f.name : f \in UserFiles}, rates \in ReturnedTables |->
        parseCSVLocally(FileNamed(name).lines, teamMembers, rates, 0)]
\* page.tsx:4121-4131: the transactions of the files, each stamped with period
RECURSIVE ParseFilesMutLaterFallback(_, _, _, _)
ParseFilesMutLaterFallback(names, rates, period, idBase) ==
    IF names = <<>> THEN <<>>
    ELSE LET file == FileNamed(Head(names))
             txs == parsedFiles[Head(names), rates]
         IN  [k \in 1..Len(txs) |-> [txs[k] EXCEPT !.period = period, !.id = @ + idBase]]
                 \o ParseFilesMutLaterFallback(Tail(names), FallbackRates, period,
                                               idBase + Len(file.lines))
RECURSIVE ParseFiles(_, _, _, _)
ParseFiles(names, rates, period, idBase) ==
    IF names = <<>> THEN <<>>
    ELSE LET file == FileNamed(Head(names))
             txs == parsedFiles[Head(names), rates]
         IN  [k \in 1..Len(txs) |-> [txs[k] EXCEPT !.period = period, !.id = @ + idBase]]
                 \o ParseFiles(Tail(names), rates, period, idBase + Len(file.lines))
Elements(seq) == {seq[k] : k \in 1..Len(seq)}
\* crypto.randomUUID() for the rows of a file: numbers past every id in use
MaxIds == 14
SeqIds(txs) == {tx.id : tx \in Elements(txs)}
TxIds == {r.id : r \in dbTx \cup transactions} \cup SeqIds(modal.analysisResult.transactions)
             \cup SeqIds(pendingImport.transactions)
LastTxId == IF TxIds = {} THEN 0 ELSE CHOOSE n \in TxIds : \A m \in TxIds : m <= n
RECURSIVE LinesOf(_)
LinesOf(names) ==
    IF names = <<>> THEN 0 ELSE Len(FileNamed(Head(names)).lines) + LinesOf(Tail(names))

\* what the handlers of the modal leave alone
ModalFrame ==
    UNCHANGED <<parseVars, convVars, storeVars, mounted, transactions, categorizationRules,
                customCategories, hiddenCategories, pendingDeletions, faults, histVars>>

\* page.tsx:4180-4184 and 4106-4117: the effect on [files] after a handler has
\* left the modal in state m, and processFiles up to its first await
FilesChanged(m) ==
    IF Len(m.files) > 0 /\ ~m.analysisResult.set /\ ~m.processing
    THEN /\ modal' = [m EXCEPT !.processing = TRUE, !.error = <<>>,
                               !.analysisResult = NoAnalysis]
         /\ inflight' = [active |-> TRUE, files |-> m.files,
                         period |-> PeriodLabel(m.selectedMonth, m.selectedYear)]
         /\ CallStarts(1)
    ELSE /\ modal' = m
         /\ UNCHANGED <<inflight, ratesVars>>

\* page.tsx:4066-4077 and 4086-4097
WithFiles(m, added) ==
    LET d == FileNameDate(added[1], m.selectedMonth, m.selectedYear)
    IN  [m EXCEPT !.files = @ \o added, !.error = <<>>, !.analysisResult = NoAnalysis,
                  !.selectedMonth = d.month, !.selectedYear = d.year]

setShowUploadModal ==
    /\ mounted
    /\ ~showUploadModal
    /\ showUploadModal' = TRUE
    /\ modal' = ModalInit
    /\ UNCHANGED <<inflight, pendingImport, ratesVars>>
    /\ ModalFrame

\* the X of the modal; a request processFiles has sent stays under way
onClose ==
    /\ showUploadModal
    /\ ~modal.importing
    /\ showUploadModal' = FALSE
    /\ modal' = ModalInit
    /\ inflight' = NoInflight
    /\ IF ratesCall[1].pc = "fetching"
       THEN /\ ratesCall[2].pc = "idle"
            /\ ratesCall' = [ratesCall EXCEPT ![1] = NoCall, ![2] = ratesCall[1]]
       ELSE ratesCall' = [ratesCall EXCEPT ![1] = NoCall]
    /\ UNCHANGED <<exchangeRatesCache, now, lastFetch, pendingImport>>
    /\ ModalFrame

\* page.tsx:4061-4081 for the drops a user makes
handleDropOf(drops) ==
    /\ showUploadModal
    /\ ~modal.analysisResult.set
    /\ ~modal.importing
    /\ \E dropped \in drops :
          LET droppedFiles == SelectSeq(dropped, LAMBDA n : endsWith(n, <<".", "c", "s", "v">>))
          IN  /\ Len(modal.files) + Len(droppedFiles) <= MaxFiles
              /\ IF Len(droppedFiles) > 0
                 THEN \E m \in {WithFiles(modal, droppedFiles)} : FilesChanged(m)
                 ELSE /\ modal' = [modal EXCEPT !.error = <<"P", "l", "e", "a", "s", "e", " ", "u", "p", "l", "o", "a", "d", " ", "C", "S", "V", " ", "f", "i", "l", "e", "s">>]
                      /\ UNCHANGED <<inflight, ratesVars>>
    /\ UNCHANGED <<showUploadModal, pendingImport>>
    /\ ModalFrame
handleDrop == handleDropOf(FileDrops)
\* a user who drops one statement at a time
SingleDrops == {<<RevolutCsv.name>>, <<NotesCsv.name>>}
handleDropSingle == handleDropOf(SingleDrops)

handleFileSelect ==
    /\ showUploadModal
    /\ ~modal.analysisResult.set
    /\ ~modal.importing
    /\ \E selectedFiles \in FileSelections :
          /\ Len(modal.files) + Len(selectedFiles) <= MaxFiles
          /\ \E m \in {WithFiles(modal, selectedFiles)} : FilesChanged(m)
    /\ UNCHANGED <<showUploadModal, pendingImport>>
    /\ ModalFrame

\* page.tsx:4208 and 4220: the month and the year select of the modal
\* the options a user picks: November, and the year 2026
ModalMonths == {10}
ModalYears == {2026}
selectMonth ==
    /\ showUploadModal
    /\ ~modal.importing
    /\ \E v \in ModalMonths \ {modal.selectedMonth} :
          modal' = [modal EXCEPT !.selectedMonth = v, !.analysisResult = NoAnalysis,
                                 !.files = <<>>]
    /\ UNCHANGED <<showUploadModal, inflight, pendingImport, ratesVars>>
    /\ ModalFrame
selectYear ==
    /\ showUploadModal
    /\ ~modal.importing
    /\ \E v \in ModalYears \ {modal.selectedYear} :
          modal' = [modal EXCEPT !.selectedYear = v, !.analysisResult = NoAnalysis,
                                 !.files = <<>>]
    /\ UNCHANGED <<showUploadModal, inflight, pendingImport, ratesVars>>
    /\ ModalFrame

\* the request processFiles awaits settles
RatesArrive ==
    /\ \E resp \in ApiResponses : CallSettles(1, resp)
    /\ UNCHANGED <<parseVars, convVars, appVars>>
\* a request whose modal was closed settles: the cache is written, nobody reads
\* the returned table
RatesArriveUnread ==
    /\ ratesCall[2].pc = "fetching"
    /\ \E resp \in ApiResponses :
          /\ exchangeRatesCache' = FetchOutcome(exchangeRatesCache, resp, now).cache
          /\ lastFetch' = IF resp.ok THEN [ok |-> TRUE, rates |-> resp.rates, at |-> now]
                          ELSE lastFetch
    /\ ratesCall' = [ratesCall EXCEPT ![2] = NoCall]
    /\ UNCHANGED <<now, parseVars, convVars, appVars>>

\* page.tsx:4117-4165: processFiles once getExchangeRates and file.text() have resolved
processFiles ==
    /\ inflight.active
    /\ ratesCall[1].pc = "idle"
    /\ ratesCall[1].returned
    /\ LastTxId + LinesOf(inflight.files) <= MaxIds
    /\ \E exchangeRates \in {ratesCall[1].ret} :
       \E allTransactions \in {IF exchangeRates.isMap
                                THEN ParseFiles(inflight.files, exchangeRates,
                                                inflight.period, LastTxId)
                                ELSE <<>>} :
           IF ~exchangeRates.isMap
           THEN modal' = [modal EXCEPT !.error = <<"E", "r", "r", "o", "r", " ", "p", "r", "o", "c", "e", "s", "s", "i", "n", "g", " ", "f", "i", "l", "e", "s", ":", " ">>,
                                       !.processing = FALSE]
           ELSE IF Len(allTransactions) = 0
                   THEN modal' = [modal EXCEPT
                            !.error = <<"N", "o", " ", "v", "a", "l", "i", "d", " ", "t", "r", "a", "n", "s", "a", "c", "t", "i", "o", "n", "s", " ", "f", "o", "u", "n", "d", ".", " ", "P", "l", "e", "a", "s", "e", " ", "c", "h", "e", "c", "k", " ", "y", "o", "u", "r", " ", "C", "S", "V", " ", "f", "o", "r", "m", "a", "t", ".">>,
                            !.processing = FALSE]
                   ELSE modal' = [modal EXCEPT
                            !.analysisResult = [set |-> TRUE, transactions |-> allTransactions,
                                                summary |-> Summary(allTransactions)],
                            !.processing = FALSE]
    /\ inflight' = NoInflight
    /\ ratesCall' = [ratesCall EXCEPT ![1] = NoCall]
    /\ UNCHANGED <<exchangeRatesCache, now, lastFetch, showUploadModal, pendingImport>>
    /\ ModalFrame

\* page.tsx:3620: txs.map(tx => ({ ...tx, period }))
WithPeriodMutKeepStamp(txs, period) == txs
WithPeriod(txs, period) == [k \in 1..Len(txs) |-> [txs[k] EXCEPT !.period = period]]

batchSize == 100
\* page.tsx:3108-3118: the batches from row i on; the request of batch failAt
\* fails, and so does one that repeats a stored id (id is the primary key)
RECURSIVE InsertFrom(_, _, _, _)
InsertFrom(db, rows, i, failAt) ==
    IF i > Len(rows) THEN [ok |-> TRUE, db |-> db]
    ELSE LET last == IF i + batchSize - 1 < Len(rows) THEN i + batchSize - 1 ELSE Len(rows)
             batch == {rows[k] : k \in i..last}
         IN  IF failAt = i \/ (\E r \in db, b \in batch : r.id = b.id)
                \/ Cardinality({b.id : b \in batch}) < Cardinality(i..last)
             THEN [ok |-> FALSE, db |-> db]
             ELSE InsertFrom(db \cup batch, rows, i + batchSize, failAt)

(***************************************************************************)
(* saveTransactions(newTransactions, period, filename, bank) up to its     *)
(* loadData (page.tsx:3068-3137): [ok, db, faults] for each way its        *)
(* requests can fail.  A failed delete is logged and the insert goes on.   *)
(* The statements table is not part of the model.                          *)
(***************************************************************************)
saveTransactions(db, newTransactions, period, bank, f) ==
    LET txToInsert == [k \in 1..Len(newTransactions) |-> ToRow(newTransactions[k], period)]
        kept == {r \in db : ~(r.period = period /\ r.bank = bank)}
        starts == {i \in 1..Len(txToInsert) : (i - 1) % batchSize = 0}
    IN  {[ok |-> InsertFrom(IF deleteError THEN db ELSE kept, txToInsert, 1, failAt).ok,
          db |-> InsertFrom(IF deleteError THEN db ELSE kept, txToInsert, 1, failAt).db,
          faults |-> f - (IF deleteError THEN 1 ELSE 0) - (IF failAt # 0 THEN 1 ELSE 0)] :
            deleteError \in {e \in BOOLEAN : e => f > 0},
            failAt \in {0} \cup (IF f > 0 THEN starts ELSE {})}

\* page.tsx:4168-4177
confirmImportMutUnguarded ==
    /\ showUploadModal
    /\ ~modal.importing
    /\ modal' = [modal EXCEPT !.importing = TRUE]
    /\ pendingImport' = [set |-> TRUE, transactions |-> modal.analysisResult.transactions,
                         period |-> PeriodLabel(modal.selectedMonth, modal.selectedYear),
                         files |-> modal.files]
    /\ lastConfirm' = [set |-> TRUE,
                       period |-> PeriodLabel(modal.selectedMonth, modal.selectedYear),
                       stamps |-> {tx.period : tx \in Elements(modal.analysisResult.transactions)},
                       done |-> FALSE, storedPeriods |-> {}]
    /\ UNCHANGED <<showUploadModal, inflight, ratesVars, parseVars, convVars,
                   storeVars, mounted, transactions, categorizationRules, customCategories,
                   hiddenCategories, pendingDeletions, faults, lastSave, applyHist>>
confirmImport ==
    /\ showUploadModal
    /\ modal.analysisResult.set
    /\ ~modal.importing
    /\ modal' = [modal EXCEPT !.importing = TRUE]
    /\ pendingImport' = [set |-> TRUE, transactions |-> modal.analysisResult.transactions,
                         period |-> PeriodLabel(modal.selectedMonth, modal.selectedYear),
                         files |-> modal.files]
    /\ lastConfirm' = [set |-> TRUE,
                       period |-> PeriodLabel(modal.selectedMonth, modal.selectedYear),
                       stamps |-> {tx.period : tx \in Elements(modal.analysisResult.transactions)},
                       done |-> FALSE, storedPeriods |-> {}]
    /\ UNCHANGED <<showUploadModal, inflight, ratesVars, parseVars, convVars,
                   storeVars, mounted, transactions, categorizationRules, customCategories,
                   hiddenCategories, pendingDeletions, faults, lastSave, applyHist>>

\* the rows of after that were not in before, by id
NewRows(before, after) == {r \in after : \A b \in before : b.id # r.id}

\* page.tsx:3618-3630: the timeout of confirmImport fires
onUploadComplete ==
    /\ pendingImport.set
    /\ LET txs == pendingImport.transactions
           period == pendingImport.period
           txsWithPeriod == WithPeriod(txs, period)
           bank == IF Len(txs) > 0 THEN txs[1].bank ELSE "Imported"
       IN  \E out \in {o \in saveTransactions(dbTx, txsWithPeriod, period, bank, faults) :
                          o.faults >= 0} :
             /\ dbTx' = out.db
             /\ lastConfirm' = [lastConfirm EXCEPT
                    !.done = TRUE,
                    !.storedPeriods = {r.period : r \in NewRows(dbTx, out.db)}]
             /\ IF out.ok
                THEN /\ \E res \in loadData(transactions, categorizationRules,
                                            customCategories, out.db, dbRules, dbCategories,
                                            out.faults) :
                          /\ Loaded(res)
                          /\ lastSave' =
                               [called |-> TRUE, ok |-> TRUE, clean |-> res.faults = faults,
                                period |-> period, bank |-> bank]
                     /\ showUploadModal' = FALSE
                     /\ modal' = ModalInit
                ELSE /\ faults' = out.faults
                     /\ lastSave' = [called |-> TRUE, ok |-> FALSE, clean |-> FALSE,
                                     period |-> period, bank |-> bank]
                     /\ UNCHANGED <<transactions, categorizationRules, customCategories,
                                    showUploadModal, modal>>
    /\ pendingImport' = NoPending
    /\ applyHist' = NoApply
    /\ UNCHANGED <<inflight, ratesVars, parseVars, convVars, dbRules, dbCategories,
                   mounted, hiddenCategories, pendingDeletions>>

---------------------------------------------------------------------------
(* Specifications *)

\* a ledger stored before the page is opened: the November Relay statement
StoredLedger ==
    {ToRow(tx, PeriodLabel(10, currentYear)) :
        tx \in Elements(parsedFiles[RelayNov.name, FallbackRates])}
Ledgers == {{}, StoredLedger}

\* the page before its mount effect, over the stored ledger db
AppInit(db) ==
    /\ dbTx = db
    /\ dbRules = {}
    /\ dbCategories = {}
    /\ mounted = FALSE
    /\ transactions = {}
    /\ categorizationRules = <<>>
    /\ customCategories = {}
    /\ hiddenCategories = {}
    /\ pendingDeletions = {}
    /\ showUploadModal = FALSE
    /\ modal = ModalInit
    /\ inflight = NoInflight
    /\ pendingImport = NoPending
    /\ lastSave = NoSave
    /\ lastConfirm = NoConfirm
    /\ applyHist = NoApply
AppIdle == AppInit({}) /\ faults = 0 /\ parsedFiles = <<>>

ConvertInit == RatesInit /\ ParseIdle /\ ConvInit /\ AppIdle
ConvertNext == ConvertToUSD
SpecConvert == ConvertInit /\ [][ConvertNext]_vars

RatesOnlyInit == RatesInit /\ ParseIdle /\ convCall = ConvIdle /\ AppIdle
RatesNext == GetExchangeRates \/ FetchSettles \/ Tick
SpecRates == RatesOnlyInit /\ [][RatesNext]_vars

ParseOnlyInit == RatesInit /\ ParseInit /\ convCall = ConvIdle /\ AppIdle
ParseNext == ParseCSVLocally
SpecParse == ParseOnlyInit /\ [][ParseNext]_vars

LedgerInit ==
    /\ RatesInit /\ ParseIdle /\ convCall = ConvIdle
    /\ parsedFiles = FileTransactions
    /\ \E db \in Ledgers : AppInit(db)
    /\ faults \in 0..MaxFaults
LedgerNext ==
    \/ Mount
    \/ handleCreateRule
    \/ handleDeleteRule
    \/ handleApplyRulesToExisting
    \/ handleBulkUpdateCategory
    \/ handleCreateCategory
    \/ MarkForDeletion
    \/ UndoDeletion
    \/ CancelDeletions
    \/ CommitDeletions
    \/ handleMigrateAndDeleteCategory
SpecLedger == LedgerInit /\ [][LedgerNext]_vars

\* a ledger of two periods: the October Revolut statement besides the November
\* Relay statement
TwoPeriodLedger ==
    StoredLedger \cup
    {ToRow([tx EXCEPT !.id = @ + Len(RelayNov.lines)], PeriodLabel(9, currentYear)) :
        tx \in Elements(parsedFiles[RevolutCsv.name, FallbackRates])}
DeleteInit ==
    /\ RatesInit /\ ParseIdle /\ convCall = ConvIdle
    /\ parsedFiles = FileTransactions
    /\ \E db \in Ledgers \cup {TwoPeriodLedger} : AppInit(db)
    /\ faults \in 0..MaxFaults
DeleteNext ==
    \/ Mount
    \/ handleCreateRule
    \/ handleDeleteRule
    \/ handleBulkUpdateCategory
    \/ deleteByPeriod
    \/ deleteAllData
SpecDelete == DeleteInit /\ [][DeleteNext]_vars

QuickNext ==
    \/ Mount
    \/ handleCreateRule
    \/ handleDeleteRule
    \/ handleQuickRule
    \/ handleApplyRulesToExisting
SpecQuick == LedgerInit /\ [][QuickNext]_vars

\* the page of a user who categorizes in bulk, migrates a category away and
\* applies the rules
MigrateNext ==
    \/ Mount
    \/ handleCreateRule
    \/ handleBulkUpdateCategory
    \/ handleMigrateAndDeleteCategory
    \/ handleApplyRulesToExisting
SpecMigrate == LedgerInit /\ [][MigrateNext]_vars

UploadInit ==
    /\ RatesInit /\ ParseIdle /\ convCall = ConvIdle
    /\ parsedFiles = FileTransactions
    /\ \E db \in Ledgers : AppInit(db)
    /\ faults \in 0..MaxFaults
UploadNext ==
    \/ Mount
    \/ setShowUploadModal
    \/ onClose
    \/ handleDrop
    \/ handleFileSelect
    \/ selectMonth
    \/ selectYear
    \/ RatesArrive
    \/ RatesArriveUnread
    \/ processFiles
    \/ confirmImport
    \/ onUploadComplete
SpecUpload == UploadInit /\ [][UploadNext]_vars

\* the modal up to the batch it offers: files dropped one at a time, nothing
\* confirmed
BatchNext ==
    \/ Mount
    \/ setShowUploadModal
    \/ onClose
    \/ handleDropSingle
    \/ handleFileSelect
    \/ RatesArrive
    \/ RatesArriveUnread
    \/ processFiles
SpecBatch == UploadInit /\ [][BatchNext]_vars

---------------------------------------------------------------------------
(* Properties of the parser, the converter and the rate cache *)

\* the 0-based column the loop of the detected dialect reads the amount from
\* (page.tsx:3746, 3834, 3936 and 3943)
AmountColumn(headers) ==
    IF isRelay(headers) \/ isRevolut(headers) THEN indexOf(headers, <<"a", "m", "o", "u", "n", "t">>)
    ELSE IF findIndex(headers, IsGenericAmount) >= 0 THEN findIndex(headers, IsGenericAmount)
    ELSE 2

\* the amount field of a row, stripped, is 0 or is no number
ZeroOrUnparseable(field) ==
    LET p == StrippedFloat(field) IN p.nan \/ p.n = 0

\* data line i of the parsed file has an amount that is 0 or no number
ZeroAmountLine(i) == ZeroOrUnparseable(At(csvFile[i], AmountColumn(HeadersOf(csvFile))))

\* C5: in every dialect, a data row whose stripped amount field parses to 0 or
\* does not parse yields no transaction in the batch parseCSVLocally returns.
C5_ZeroAmountRowsDropped ==
    parseDone =>
        \A i \in 2..Len(csvFile) :
            ZeroAmountLine(i) => \A k \in 1..Len(parsed) : parsed[k].id # i

\* a file whose first row is long enough to pass the length test and has a zero
\* amount, and whose second row was turned into the only transaction
C5_Witness ==
    /\ parseDone
    /\ Len(csvFile) = 3
    /\ Len(csvFile[2]) >= 5
    /\ ZeroAmountLine(2)
    /\ Len(parsed) = 1
    /\ parsed[1].id = 3

\* C6: every transaction parseCSVLocally returns has a sign that agrees with
\* its type: income has a positive amount and expense a negative one.
C6_SignAgreesWithType ==
    parseDone =>
        \A k \in 1..Len(parsed) :
            /\ parsed[k].type = "income" => NumPos(parsed[k].amount)
            /\ parsed[k].type = "expense" => NumNeg(parsed[k].amount)

\* the rate table the batch is converted with
TableUsed == IF csvRates.isMap THEN csvRates.map ELSE EmptyMap

\* C8 as stated: whenever originalCurrency is set, the table has its rate and
\* amount is originalAmount divided by it (amount * rate = originalAmount).
C8_AlwaysDivided ==
    parseDone =>
        \A k \in 1..Len(parsed) :
            parsed[k].originalCurrency # <<>> =>
                /\ HasRate(TableUsed, parsed[k].originalCurrency)
                /\ NumEq(NumMul(parsed[k].amount, TableUsed[parsed[k].originalCurrency]),
                         parsed[k].originalAmount)

\* C8 amended: whenever originalCurrency is set, amount is originalAmount
\* divided by the rate of originalCurrency if the table has a non-zero rate for
\* it, and is originalAmount itself if the table has none.
C8_DividedWhenRateKnown ==
    parseDone =>
        \A k \in 1..Len(parsed) :
            parsed[k].originalCurrency # <<>> =>
                IF /\ HasRate(TableUsed, parsed[k].originalCurrency)
                   /\ ~NumIsZero(TableUsed[parsed[k].originalCurrency])
                THEN NumEq(NumMul(parsed[k].amount, TableUsed[parsed[k].originalCurrency]),
                           parsed[k].originalAmount)
                ELSE parsed[k].amount = parsed[k].originalAmount

\* a batch with a transaction in a currency the table prices at other than 1
\* and a transaction in a currency the table lacks
C8_Witness ==
    /\ parseDone
    /\ \E k \in 1..Len(parsed) :
           /\ parsed[k].originalCurrency = EUR
           /\ HasRate(TableUsed, EUR)
           /\ ~NumEq(parsed[k].amount, parsed[k].originalAmount)
    /\ \E k \in 1..Len(parsed) :
           /\ parsed[k].originalCurrency = XYZ
           /\ ~HasRate(TableUsed, XYZ)

\* the table has an entry for c that the source's !rate does not reject
HasUsableRate(rates, c) == rates.isMap /\ HasRate(rates.map, c) /\ ~NumIsZero(rates.map[c])

\* C9: convertToUSD returns the amount unchanged for 'USD' or an empty
\* currency; returns amount / rate (value * rate = amount) when the table has a
\* rate for the currency; and returns the amount unchanged, without throwing,
\* when the table has none.
C9_ConvertToUSDCases ==
    convCall.done =>
        LET a == convCall.amount
            c == convCall.fromCurrency
            r == convCall.rates
            res == convCall.result
        IN  /\ (c = USD \/ c = <<>>) => (~res.threw /\ res.value = a)
            /\ (c # USD /\ c # <<>> /\ HasUsableRate(r, c)) =>
                   (~res.threw /\ NumEq(NumMul(res.value, r.map[c]), a))
            /\ (c # USD /\ c # <<>> /\ r.isMap /\ ~HasUsableRate(r, c)) =>
                   (~res.threw /\ res.value = a)

\* a call that divided by a rate other than 1
C9_Witness ==
    /\ convCall.done
    /\ convCall.fromCurrency = BRL
    /\ HasUsableRate(convCall.rates, BRL)
    /\ ~NumIsZero(convCall.amount)
    /\ convCall.result.value # convCall.amount

\* C10: a call of getExchangeRates made less than one hour after a successful
\* fetch sends no request and returns the table that fetch cached; the cache
\* always holds the table and the time of the last successful fetch.
C10_FreshCacheServed ==
    /\ \A k \in Callers :
           ratesCall[k].hadFresh =>
               /\ ~ratesCall[k].fetched
               /\ ratesCall[k].returned
               /\ ratesCall[k].ret = ratesCall[k].freshRates
    /\ lastFetch.ok =>
           /\ exchangeRatesCache.set
           /\ exchangeRatesCache.rates = lastFetch.rates
           /\ exchangeRatesCache.timestamp = lastFetch.at

\* a call served from the cache half an hour after the fetch that filled it
C10_Witness ==
    \E k \in Callers :
        /\ ratesCall[k].hadFresh
        /\ ratesCall[k].returned
        /\ ratesCall[k].ret = ApiRatesA
        /\ now = lastFetch.at + TickMs

---------------------------------------------------------------------------
(* Properties of the ledger, the rules and the upload *)

\* C1: the second of two runs of handleApplyRulesToExisting in a row, with no
\* other handler in between and no failed request, updates no transaction
\* (returns 0), whatever the ledger and the rules.
C1_SecondApplyUpdatesNothing ==
    (applyHist.runs = 2 /\ applyHist.clean) => applyHist.count = 0

\* C2: a step that keeps a stored transaction changes at most its category: a
\* row with the same id before and after differs in no other field.
C2_OnlyCategoryChanges ==
    [][\A r \in dbTx : \A q \in dbTx' :
          q.id = r.id => [q EXCEPT !.category = r.category] = r]_vars

\* a stored transaction of the ledger has been given another category
C2_Witness ==
    \E r \in dbTx : \E s \in StoredLedger : s.id = r.id /\ r.category # s.category

\* the pair saveTransactions is called for by onUploadComplete
SavedPeriod == pendingImport.period
SavedBank == pendingImport.transactions[1].bank
InSavedPair(r) == r.period = SavedPeriod /\ r.bank = SavedBank

\* C3: when onUploadComplete saves a batch for a (period, bank) pair that has
\* stored transactions and saveTransactions reports success, the stored
\* transactions of the pair are then exactly the batch, and the transactions of
\* every other period or bank are as they were.
C3_ReimportReplacesPair ==
    [][(/\ pendingImport.set
        /\ ~pendingImport'.set
        /\ lastSave'.ok
        /\ \E r \in dbTx : InSavedPair(r))
       => /\ {r \in dbTx' : InSavedPair(r)} =
                 {[tx EXCEPT !.period = SavedPeriod] :
                     tx \in Elements(pendingImport.transactions)}
          /\ {r \in dbTx' : ~InSavedPair(r)} = {r \in dbTx : ~InSavedPair(r)}]_vars

\* C4: the transactions one upload confirmation stores all carry the period
\* label the modal showed when the confirmation was given.
C4_OnePeriodPerConfirmation ==
    lastConfirm.done => lastConfirm.storedPeriods \subseteq {lastConfirm.period}

\* a confirmation has stored rows under its label although the batch had been
\* stamped with another period while it was parsed
C4_Witness ==
    /\ lastConfirm.done
    /\ lastConfirm.storedPeriods = {lastConfirm.period}
    /\ lastConfirm.stamps # {}
    /\ lastConfirm.period \notin lastConfirm.stamps

\* the selections of the period selector of the dashboard
DashboardMonths == {{}, {10}, {11}}
DashboardYears == {2025, 2026}
Internals(txs) == {tx \in txs : tx.type = "internal"}
\* the positions of txs without those in drop
WithoutPositions(txs, drop) ==
    LET keep == {k \in 1..Len(txs) : k \notin drop}
        F[i \in 0..Len(txs)] ==
            IF i = 0 THEN <<>> ELSE IF i \in keep THEN Append(F[i - 1], txs[i]) ELSE F[i - 1]
    IN  F[Len(txs)]
InternalPositions(txs) == {k \in 1..Len(txs) : txs[k].type = "internal"}

\* C7: the totals of the dashboard, for every selection of its period, are the
\* same with any set of the internal transactions taken out of the list it
\* aggregates, and so are the income and the expenses of the preview of an
\* analysed upload.
C7_InternalNeverCounted ==
    /\ \A months \in DashboardMonths, year \in DashboardYears :
       \A shown \in {filteredTransactions(transactions, months, year)} :
       \A totals \in {aggregatedData(shown)} :
       \A out \in SUBSET Internals(shown) : aggregatedData(shown \ out) = totals
    /\ modal.analysisResult.set =>
           \A drop \in SUBSET InternalPositions(modal.analysisResult.transactions) :
               LET rest == Summary(WithoutPositions(modal.analysisResult.transactions, drop))
               IN  /\ rest.income = modal.analysisResult.summary.income
                   /\ rest.expenses = modal.analysisResult.summary.expenses

\* the loaded ledger and the analysed upload both hold an internal transaction
\* next to counted ones
C7_Witness ==
    /\ Internals(filteredTransactions(transactions, {10}, 2025)) # {}
    /\ aggregatedData(filteredTransactions(transactions, {10}, 2025)).expenses # Zero
    /\ modal.analysisResult.set
    /\ modal.analysisResult.summary.internalCount > 0
    /\ modal.analysisResult.summary.income # Zero
    /\ modal.analysisResult.summary.expenses # Zero


---------------------------------------------------------------------------
(* Properties of getExchangeRates when the request fails or carries no table *)

\* the step in which the request of call k settles as a failure
FailingSettle(k) ==
    /\ ratesCall[k].pc = "fetching"
    /\ ratesCall'[k].pc = "idle"
    /\ ratesCall'[k].failed

\* C11 as claimed: a call whose fetch fails returns the fallback table and
\* leaves exchangeRatesCache as it was, and the call made next finds no fresh
\* cache, so it sends the request again.
C11_NextCallRetries ==
    [][\A k \in Callers :
          FailingSettle(k) =>
              /\ ratesCall'[k].returned
              /\ ratesCall'[k].ret = FallbackRates
              /\ exchangeRatesCache' = exchangeRatesCache
              /\ ~CacheFresh(exchangeRatesCache', now')]_vars

\* C11 amended: a call whose fetch fails returns the fallback table and leaves
\* exchangeRatesCache (rates and timestamp) as it was; the call made next
\* sends the request again unless the cache is fresh from the fetch of an
\* overlapping call that settled less than an hour ago.
C11_FailureLeavesCache ==
    [][\A k \in Callers :
          FailingSettle(k) =>
              /\ ratesCall'[k].returned
              /\ ratesCall'[k].ret = FallbackRates
              /\ exchangeRatesCache' = exchangeRatesCache
              /\ CacheFresh(exchangeRatesCache', now') =>
                     /\ FetchedWithinTheHour(now')
                     /\ exchangeRatesCache'.timestamp = lastFetch'.at]_vars

\* a call that came back with the fallback table while the cache held the
\* table of an earlier fetch, grown stale
C11_Witness ==
    \E k \in Callers :
        /\ ratesCall[k].failed
        /\ ratesCall[k].ret = FallbackRates
        /\ exchangeRatesCache.set
        /\ exchangeRatesCache.rates = ApiRatesA
        /\ ~CacheFresh(exchangeRatesCache, now)

\* C12: every table a call of getExchangeRates has returned is a mapping from
\* currency code to rate, and the cache holds only such a mapping.
C12_ReturnsMapping ==
    /\ \A k \in Callers : ratesCall[k].returned => ratesCall[k].ret.isMap
    /\ exchangeRatesCache.set => exchangeRatesCache.rates.isMap

---------------------------------------------------------------------------
(* Properties of the dialects: bank, type, category and date of a row *)

\* the header fields of the parsed file, lower-cased and trimmed
LowerHeader == {trim(toLowerCase(csvFile[1][k])) : k \in 1..Len(csvFile[1])}
RelaySignature == {<<"p", "a", "y", "e", "e">>, <<"t", "r", "a", "n", "s", "a", "c", "t", "i", "o", "n", " ", "t", "y", "p", "e">>} \subseteq LowerHeader
RevolutSignature ==
    /\ \E h \in LowerHeader : includes(h, <<"d", "a", "t", "e", " ", "s", "t", "a", "r", "t", "e", "d">>) \/ includes(h, <<"d", "a", "t", "e", " ", "c", "o", "m", "p", "l", "e", "t", "e", "d">>)
    /\ <<"t", "y", "p", "e">> \in LowerHeader
MercurySignature == <<"b", "a", "n", "k", " ", "d", "e", "s", "c", "r", "i", "p", "t", "i", "o", "n">> \in LowerHeader
DetectedBank ==
    IF RelaySignature THEN "Relay"
    ELSE IF RevolutSignature THEN "Revolut"
    ELSE IF MercurySignature THEN "Mercury"
    ELSE "Imported"

\* C13: the bank of a file is decided from its lower-cased header fields alone,
\* Relay before Revolut before Mercury before Imported, and every transaction
\* of the file carries that bank whatever its rows hold.
C13_BankFromHeader ==
    parseDone => \A k \in 1..Len(parsed) : parsed[k].bank = DetectedBank

\* a header with the signatures of all three banks, parsed as Relay, and the
\* transaction of a row that holds a Revolut type in the extra column
C13_Witness ==
    /\ parseDone
    /\ csvFile # <<>>
    /\ RelaySignature /\ RevolutSignature /\ MercurySignature
    /\ \E k \in 1..Len(parsed) :
           /\ parsed[k].bank = "Relay"
           /\ Len(csvFile[parsed[k].id]) > Len(RelayHeader)

\* the fields of data line i of a Relay file, by the columns of RelayHeader
RelayPayee(i) == At(csvFile[i], 1)
RelayTxType(i) == toLowerCase(At(csvFile[i], 3))
RelayDesc(i) == At(csvFile[i], 4)
RelayAmount(i) == RowAmount(At(csvFile[i], 7))
SiblingBanks == {<<"r", "e", "v", "o", "l", "u", "t">>, <<"r", "e", "l", "a", "y">>}
KeywordCategory(i) == detectCategory(RelayDesc(i), RelayPayee(i))

\* type and category the table of C14 gives data line i
RelayExpected(i) ==
    IF RelayTxType(i) = <<"s", "p", "e", "n", "d">> THEN <<"expense", KeywordCategory(i)>>
    ELSE IF RelayTxType(i) = <<"r", "e", "c", "e", "i", "v", "e">>
    THEN (IF toLowerCase(RelayPayee(i)) \in SiblingBanks
          THEN <<"internal", Transfer>> ELSE <<"income", Sales>>)
    ELSE IF includes(RelayTxType(i), <<"t", "r", "a", "n", "s", "f", "e", "r">>) THEN <<"internal", Transfer>>
    ELSE IF NumPos(RelayAmount(i)) THEN <<"income", Sales>>
    ELSE <<"expense", KeywordCategory(i)>>

\* C14: a Relay row with a non-zero amount gets its type and category from its
\* lower-cased transaction type, first match: 'spend' is an expense in the
\* keyword category; 'receive' is internal/Transfer from payee 'revolut' or
\* 'relay' and income/Sales otherwise; a type containing 'transfer' is
\* internal/Transfer; anything else is income/Sales when positive and an
\* expense in the keyword category when negative.
C14_RelayTypeTable ==
    (parseDone /\ csvFile # <<>> /\ RelaySignature) =>
        \A k \in 1..Len(parsed) :
            <<parsed[k].type, parsed[k].category>> = RelayExpected(parsed[k].id)

\* a batch with a 'receive' row from the sibling bank and, after it, a
\* 'receive' row from a customer
C14_Witness ==
    /\ parseDone /\ csvFile # <<>> /\ RelaySignature
    /\ Len(parsed) = 2
    /\ toLowerCase(RelayPayee(2)) \in SiblingBanks
    /\ parsed[1].type = "internal"
    /\ parsed[2].type = "income" /\ parsed[2].category = Sales

\* the fields of data line i of a Revolut file, by the columns of RevolutHeader
RevolutType(i) == toUpperCase(At(csvFile[i], 3))
RevolutDesc(i) == At(csvFile[i], 5)
RevolutAmount(i) == RowAmount(At(csvFile[i], 7))
RevolutBeneficiary(i) == trim(At(csvFile[i], 10))
RevolutFile == parseDone /\ csvFile # <<>> /\ ~RelaySignature /\ RevolutSignature
MemberAccounts == {csvTeam[m].beneficiaryAccount : m \in 1..Len(csvTeam)} \ {<<>>}

\* type and category the order of C15 gives a TRANSFER on data line i
TransferExpected(i) ==
    IF RevolutBeneficiary(i) = <<>> THEN <<"internal", Transfer>>
    ELSE IF RevolutBeneficiary(i) = RELAY_ACCOUNT THEN <<"internal", Transfer>>
    ELSE IF RevolutBeneficiary(i) \in MemberAccounts THEN <<"expense", Payroll>>
    ELSE <<"expense", Other>>

\* C15: a Revolut TRANSFER row with a non-zero amount is internal/Transfer
\* without a beneficiary account, internal/Transfer to RELAY_ACCOUNT (also
\* when a team member has that account), expense/Payroll to the account of a
\* team member, expense/Other to any other account; a team member without an
\* account makes no row Payroll.
C15_RevolutTransferOrder ==
    RevolutFile =>
        \A k \in 1..Len(parsed) :
            RevolutType(parsed[k].id) = <<"T", "R", "A", "N", "S", "F", "E", "R">> =>
                /\ <<parsed[k].type, parsed[k].category>> = TransferExpected(parsed[k].id)
                /\ parsed[k].category = Payroll =>
                       RevolutBeneficiary(parsed[k].id) \in MemberAccounts

\* a transfer to RELAY_ACCOUNT, kept internal though a team member is
\* registered with that account
C15_Witness ==
    /\ RevolutFile
    /\ RELAY_ACCOUNT \in MemberAccounts
    /\ \E k \in 1..Len(parsed) :
           /\ RevolutType(parsed[k].id) = <<"T", "R", "A", "N", "S", "F", "E", "R">>
           /\ RevolutBeneficiary(parsed[k].id) = RELAY_ACCOUNT
           /\ parsed[k].type = "internal"

NamedRevolutTypes == {<<"C", "A", "R", "D", "_", "P", "A", "Y", "M", "E", "N", "T">>, <<"F", "E", "E">>, <<"T", "O", "P", "U", "P">>, <<"R", "E", "F", "U", "N", "D">>, <<"C", "A", "R", "D", "_", "R", "E", "F", "U", "N", "D">>, <<"E", "X", "C", "H", "A", "N", "G", "E">>, <<"T", "R", "A", "N", "S", "F", "E", "R">>}

\* C16: a Revolut row whose upper-cased type is not TRANSFER: CARD_PAYMENT is
\* an expense in the keyword category, FEE expense/Fees, TOPUP income/Sales,
\* REFUND and CARD_REFUND income/Refunds, EXCHANGE internal/Transfer; any
\* other type, the empty one included, is income when the amount is positive
\* and expense when negative, and the row is neither dropped nor an error.
C16_RevolutTypeTable ==
    RevolutFile =>
        /\ \A k \in 1..Len(parsed) :
               LET i == parsed[k].id
                   t == RevolutType(i)
                   tx == parsed[k]
               IN  /\ t = <<"C", "A", "R", "D", "_", "P", "A", "Y", "M", "E", "N", "T">> =>
                          tx.type = "expense" /\ tx.category = detectCategory(RevolutDesc(i), <<>>)
                   /\ t = <<"F", "E", "E">> => tx.type = "expense" /\ tx.category = Fees
                   /\ t = <<"T", "O", "P", "U", "P">> => tx.type = "income" /\ tx.category = Sales
                   /\ t \in {<<"R", "E", "F", "U", "N", "D">>, <<"C", "A", "R", "D", "_", "R", "E", "F", "U", "N", "D">>} =>
                          tx.type = "income" /\ tx.category = Refunds
                   /\ t = <<"E", "X", "C", "H", "A", "N", "G", "E">> => tx.type = "internal" /\ tx.category = Transfer
                   /\ t \notin NamedRevolutTypes =>
                          tx.type = (IF NumPos(RevolutAmount(i)) THEN "income" ELSE "expense")
        /\ \A i \in 2..Len(csvFile) :
               (/\ Len(csvFile[i]) >= 5
                /\ ~ZeroAmountLine(i)
                /\ RevolutType(i) \notin NamedRevolutTypes)
                   => \E k \in 1..Len(parsed) : parsed[k].id = i

\* a row with an empty type and a negative amount, turned into an expense
C16_Witness ==
    /\ RevolutFile
    /\ \E k \in 1..Len(parsed) :
           /\ RevolutType(parsed[k].id) = <<>>
           /\ NumNeg(RevolutAmount(parsed[k].id))
           /\ parsed[k].type = "expense"

---------------------------------------------------------------------------
(* Properties of the upload when nothing can be imported or the insert fails *)

\* the step in which processFiles finishes on files that yield no transaction
ZeroBatchStep ==
    /\ inflight.active
    /\ ~inflight'.active
    /\ showUploadModal'
    /\ ratesCall[1].returned
    /\ ratesCall[1].ret.isMap
    /\ ParseFiles(inflight.files, ratesCall[1].ret, inflight.period, LastTxId) = <<>>

\* C17: when the files of an upload yield no transaction, processFiles sets
\* the error and no analysis result; confirmImport takes only an analysis
\* result with transactions, and the stored transactions change only through
\* a confirmed batch that has some.
C17_EmptyUploadIsAnError ==
    [][/\ ZeroBatchStep =>
              /\ modal'.error # <<>>
              /\ ~modal'.analysisResult.set
              /\ ~modal'.processing
              /\ dbTx' = dbTx
       /\ (~pendingImport.set /\ pendingImport'.set) =>
              /\ modal.analysisResult.set
              /\ Len(pendingImport'.transactions) > 0
       /\ dbTx' # dbTx =>
              /\ pendingImport.set
              /\ Len(pendingImport.transactions) > 0]_vars

\* the modal after a file without a transaction: the error shows, there is
\* nothing to confirm
C17_Witness ==
    /\ showUploadModal
    /\ modal.files = <<NotesCsv.name>>
    /\ modal.error # <<>>
    /\ ~modal.processing
    /\ ~modal.analysisResult.set
    /\ ratesCall[1] = NoCall
    /\ exchangeRatesCache.set /\ exchangeRatesCache.rates.isMap

\* C18: once a batch insert of saveTransactions has failed, the upload modal
\* shows an error and is no longer importing, so that the user sees the
\* failure and can attempt the upload again.
C18_InsertFailureSurfaced ==
    (lastSave.called /\ ~lastSave.ok /\ ~pendingImport.set /\ showUploadModal) =>
        /\ modal.error # <<>>
        /\ ~modal.importing

---------------------------------------------------------------------------
(* Properties of the category set under create, mark, undo, commit and migrate *)

\* the names the page offers (page.tsx:2919)
OfferedNames == {c.name : c \in allCategories(customCategories, hiddenCategories)}

\* C19: whatever categories have been created, marked for deletion, unmarked,
\* deleted by committing the pending deletions, hidden or migrated away from,
\* 'Other' and 'Payroll' are among the categories the page offers, and neither
\* is ever marked for deletion.
C19_ProtectedCategoriesOffered ==
    /\ Other \in OfferedNames
    /\ Payroll \in OfferedNames
    /\ \A n \in pendingDeletions : ~isProtected(n)

\* C19 witness: a default category has been hidden by a committed deletion, a
\* custom category exists and one more deletion is pending.
C19_Witness ==
    /\ mounted
    /\ Ads \in hiddenCategories
    /\ customCategories # {}
    /\ pendingDeletions # {}
    /\ Other \in OfferedNames /\ Payroll \in OfferedNames

---------------------------------------------------------------------------
(* Properties of parseDate on the date column of a statement *)

\* the raw date field of data line i of a file whose first column is the date
RawDate(i) == At(csvFile[i], 0)
DateFirstFile == parseDone /\ csvFile # <<>> /\ csvFile[1] = MercuryHeader

\* YYYY-MM-DD with month 01..12 and day 01..31
WellFormedDate(d) ==
    /\ IsIsoShape(d)
    /\ DigitsVal(SubSeq(d, 6, 7)) \in 1..12
    /\ DigitsVal(SubSeq(d, 9, 10)) \in 1..31

\* C20: the date of every transaction of a parsed file is a well-formed ISO
\* date YYYY-MM-DD with month 01..12 and day 01..31, whatever the raw date
\* field holds; a raw field of the shape YYYY-MM-DD is kept as it is, and an
\* absent one becomes today's date.
C20_DatesWellFormed ==
    /\ parseDone => \A k \in 1..Len(parsed) : WellFormedDate(parsed[k].date)
    /\ DateFirstFile =>
          \A k \in 1..Len(parsed) :
              /\ IsIsoShape(RawDate(parsed[k].id)) => parsed[k].date = RawDate(parsed[k].id)
              /\ RawDate(parsed[k].id) = <<>> => parsed[k].date = TODAY

---------------------------------------------------------------------------
(* Properties of one pass of handleApplyRulesToExisting *)

\* the step is a run of handleApplyRulesToExisting: every other handler
\* clears the record of the last runs
ApplyStep == applyHist'.runs > 0
\* the ids of the stored transactions whose category the step changes
Recategorized ==
    {r.id : r \in {r \in dbTx : \E q \in dbTx' : q.id = r.id /\ q.category # r.category}}

ApplyTodo == txsToUpdate(transactions, categorizationRules)
\* the page's list and the store agree on the category of each of them
MemoryAgrees == \A tx \in ApplyTodo : \E r \in dbTx : r.id = tx.id /\ r.category = tx.category

IsFirstMatch(i, tx) ==
    /\ i \in 1..Len(categorizationRules)
    /\ RuleMatches(categorizationRules[i], tx)
    /\ \A j \in 1..(i - 1) : ~RuleMatches(categorizationRules[j], tx)
\* the categories a pass may write to the transaction the page lists as tx
WrittenCategory(tx) ==
    {categorizationRules[i].category : i \in {i \in 1..Len(categorizationRules) :
        IsFirstMatch(i, tx) /\ categorizationRules[i].category # tx.category}}

---------------------------------------------------------------------------
(* Properties of the rate lookup of processFiles *)

\* the step offers a batch for confirmation
BatchOffered == ~modal.analysisResult.set /\ modal'.analysisResult.set
\* tx is converted with the rate table rates
ConvertedWith(tx, rates) ==
    tx.originalCurrency # <<>> =>
        IF HasUsableRate(rates, tx.originalCurrency)
        THEN NumEq(NumMul(tx.amount, rates.map[tx.originalCurrency]), tx.originalAmount)
        ELSE tx.amount = tx.originalAmount
AllConvertedWith(txs, rates) == \A tx \in Elements(txs) : ConvertedWith(tx, rates)

\* C23: processFiles awaits getExchangeRates once for a batch; no row is
\* converted before that call has returned, and the rows of all the files of
\* the batch are converted with the one table it returned.
C23_RatesBeforeRows ==
    /\ [](ratesCall[1].pc = "fetching" => (inflight.active /\ ~modal.analysisResult.set))
    /\ [][/\ BatchOffered =>
               /\ inflight.active
               /\ ratesCall[1].pc = "idle"
               /\ ratesCall[1].returned
               /\ AllConvertedWith(modal'.analysisResult.transactions, ratesCall[1].ret)
               /\ ratesCall'[1] = NoCall
          /\ (inflight.active /\ inflight'.active /\ ratesCall[1].returned) =>
               ratesCall'[1] = ratesCall[1]]_vars

\* C23 witness: a batch of two banks is offered whose rows in EUR, of either
\* file, are converted with the table the request returned and not with the
\* fallback table.
C23_Witness ==
    /\ modal.analysisResult.set
    /\ \A b \in {"Relay", "Revolut"} :
          \E tx \in Elements(modal.analysisResult.transactions) :
              tx.bank = b /\ tx.originalCurrency = EUR
    /\ AllConvertedWith(modal.analysisResult.transactions, ApiRatesA)
    /\ \A tx \in Elements(modal.analysisResult.transactions) :
          tx.originalCurrency = EUR => ~ConvertedWith(tx, FallbackRates)

---------------------------------------------------------------------------
(* Properties of deleteByPeriod and deleteAllData *)

\* C24: when a step empties the store of transactions and none of its
\* requests fails (deleteAllData, or deleteByPeriod of the only stored
\* period, with the reload that follows), the page's transaction list is
\* empty after it.
C24_EmptyStoreEmptyList ==
    [][(dbTx # {} /\ dbTx' = {} /\ faults' = faults) => transactions' = {}]_vars

---------------------------------------------------------------------------
(* Properties of the order of the rules *)

\* the category the first matching rule of the order rules gives tx, if any
FirstMatchCategory(rules, tx) ==
    {rules[i].category : i \in {i \in 1..Len(rules) :
        RuleMatches(rules[i], tx) /\ \A j \in 1..(i - 1) : ~RuleMatches(rules[j], tx)}}

\* C25: while the page holds the rules of the store, the first matching rule
\* of a transaction gives the same category in the page's own order (each new
\* rule appended last) as in every order a reload can produce (priority
\* descending), so a reload between two passes changes no category a pass
\* assigns.
C25_SameFirstMatchAfterReload ==
    (mounted /\ Elements(categorizationRules) = dbRules) =>
        \A q \in PriorityOrders(dbRules) : \A tx \in transactions :
            FirstMatchCategory(q, tx) = FirstMatchCategory(categorizationRules, tx)

\* the step is a handleQuickRule whose rule was created: a rule is added to
\* the store and a pass has run
QuickStep == Cardinality(dbRules') > Cardinality(dbRules) /\ applyHist'.runs = 1
CreatedRules == dbRules' \ dbRules

\* C26: when handleQuickRule has created its rule and no request of its pass
\* fails, every transaction of the page that the new rule matches and no rule
\* before it matches is stored with the category of the new rule.
C26_QuickRuleApplied ==
    [][(QuickStep /\ faults' = faults) =>
          \A rule \in CreatedRules : \A tx \in transactions :
              (/\ RuleMatches(rule, tx)
               /\ \A i \in 1..Len(categorizationRules) :
                     ~RuleMatches(categorizationRules[i], tx))
              => \A q \in dbTx' : q.id = tx.id => q.category = rule.category]_vars

---------------------------------------------------------------------------
(* Properties of the batch the upload modal offers *)

\* a transaction without its id and its period stamp
Core(tx) == [tx EXCEPT !.id = 0, !.period = <<>>]
CoreSeq(txs) == [k \in 1..Len(txs) |-> Core(txs[k])]

\* C27: whenever the modal offers a batch for confirmation, the batch is the
\* transactions of exactly the files of the modal's file list, in the order of
\* the list, converted with one table getExchangeRates can return.
C27_BatchCoversListedFiles ==
    modal.analysisResult.set =>
        \E rates \in ReturnedTables :
            CoreSeq(modal.analysisResult.transactions) =
                CoreSeq(ParseFiles(modal.files, rates, <<>>, 0))

---------------------------------------------------------------------------
(* Properties of a save whose insert fails *)

\* the step of onUploadComplete in which saveTransactions reports a failure
SaveFails == pendingImport.set /\ ~pendingImport'.set /\ lastSave'.called /\ ~lastSave'.ok

\* C28: when a batch insert of saveTransactions fails, the stored transactions
\* of the (period, bank) pair the save was called for are the ones stored
\* before the import: the delete that came first and the batches inserted
\* before the failure leave the pair neither empty nor partly filled.
C28_FailedSaveKeepsPair ==
    [][(SaveFails /\ pendingImport.transactions # <<>>)
       => {r \in dbTx' : InSavedPair(r)} = {r \in dbTx : InSavedPair(r)}]_vars

---------------------------------------------------------------------------
(* Properties of confirming an upload again *)

\* a stored row or a transaction without the id it was given
Content(r) == [r EXCEPT !.id = 0]
\* the rows saveTransactions makes of the batch onUploadComplete holds
BatchRows == {ToRow(tx, SavedPeriod) : tx \in Elements(pendingImport.transactions)}
\* the step of onUploadComplete that saves, with success, a batch whose
\* transactions are the ones stored for its period
SameUploadAgain ==
    /\ pendingImport.set
    /\ ~pendingImport'.set
    /\ lastSave'.ok
    /\ pendingImport.transactions # <<>>
    /\ {Content(r) : r \in {r \in dbTx : r.period = SavedPeriod}} =
           {Content(r) : r \in BatchRows}
    /\ Cardinality({r \in dbTx : r.period = SavedPeriod}) = Cardinality(BatchRows)

\* C29: confirming an upload whose transactions are the ones already stored
\* for its period leaves the store with the same transactions, ids aside, as
\* before: no transaction, of the first bank or of a later one, is stored
\* twice.
C29_SecondConfirmChangesNothing ==
    [][SameUploadAgain
       => /\ {Content(r) : r \in dbTx'} = {Content(r) : r \in dbTx}
          /\ Cardinality(dbTx') = Cardinality(dbTx)]_vars

---------------------------------------------------------------------------
(* Properties of a migrated category under later passes of the rules *)

\* the stored transactions of category c
StoredIn(db, c) == {r \in db : r.category = c}
\* the step in which handleMigrateAndDeleteCategory has deleted categories
MigrateStep == hiddenCategories' # hiddenCategories

\* C30: the step of handleMigrateAndDeleteCategory that deletes category c
\* leaves no stored transaction of category c, and a later pass of
\* handleApplyRulesToExisting gives no stored transaction a deleted category
\* that no stored transaction had.
C30_MigratedCategoryStaysEmpty ==
    [][/\ MigrateStep =>
            \A c \in hiddenCategories' \ hiddenCategories : StoredIn(dbTx', c) = {}
       /\ ApplyStep =>
            \A c \in hiddenCategories : StoredIn(dbTx, c) = {} => StoredIn(dbTx', c) = {}]_vars
===========================================================================
